---- MODULE Spec2Model ----
(***************************************************************************)
(* The game session engine of Heartless (backend/app/routers/game.py with  *)
(* game_logic/cards.py): the per-table state kept in the Redis hash        *)
(* game:{id}:state, the websocket handlers pass_cards and play_card, and   *)
(* trick and round completion, with the rows of the database these touch   *)
(* (crud.py, models.py).  Further down: matchmaking (find_or_create and    *)
(* join), the connection registry (websocket_manager.py) and the opening   *)
(* and the end of a websocket connection, each with a specification of     *)
(* its own over the same variables.                                        *)
(*                                                                         *)
(* Card codes are the strings rank glyph + suit glyph ("2♣", "10♦").  A    *)
(* code is written here as the pair <<rank text, suit glyph>>, which is    *)
(* the split Card.from_str makes (card_str[:-1], card_str[-1]); the suit   *)
(* glyphs ♥ ♦ ♣ ♠ are written "H" "D" "C" "S".                             *)
(*                                                                         *)
(* A Python value that may be None is written as a tuple: None is <<>>     *)
(* and a value v is <<v>>.                                                 *)
(***************************************************************************)
EXTENDS Integers, Sequences, FiniteSets, TLC

VARIABLES
    store,   \* the Redis hash game:{id}:state: field -> text (in
             \* SpecMatch: that hash for each game that has one)
    pc,      \* per connection: where its websocket handler stands
    local,   \* per connection: the handler's in-memory `state` while it is
             \* inside process_trick_end (in SpecChannel: its current_user;
             \* in SpecBroadcast: the broadcast its handler is sending)
    db,      \* the table's rows in the database: the Game row's status and
             \* winner_id, the Round and RoundScore rows, and the
             \* total_score of each GamePlayer row (in SpecMatch: the Game
             \* rows of all tables, each with its GamePlayer rows)
    last,    \* the client message or handler step handled last
    sent,    \* the frames that step sent, in order (in SpecBroadcast:
             \* every frame handed to a channel so far)
    active_connections
             \* manager.active_connections[game_id]: the list of the
             \* entries {"ws", "user_id"} registered for the table

vars == <<store, pc, local, db, last, sent, active_connections>>

----------------------------------------------------------------------------
(* Python values *)

None == <<>>

Some(v) == <<v>>

\* bool(x) of a str-or-None value: None and "" are false.
Truthy(x) == x # None /\ x # Some("")

----------------------------------------------------------------------------
(* game_logic/cards.py *)

SUITS == [Hearts |-> "H", Diamonds |-> "D", Clubs |-> "C", Spades |-> "S"]

SuitNames == DOMAIN SUITS

SUIT_MAP_REV == [g \in {SUITS[s] : s \in SuitNames} |->
                    CHOOSE s \in SuitNames : SUITS[s] = g]

RANKS == ("2" :> 2) @@ ("3" :> 3) @@ ("4" :> 4) @@ ("5" :> 5) @@ ("6" :> 6)
         @@ ("7" :> 7) @@ ("8" :> 8) @@ ("9" :> 9) @@ ("10" :> 10)
         @@ ("J" :> 11) @@ ("Q" :> 12) @@ ("K" :> 13) @@ ("A" :> 14)

\* Card.__init__: the points of a card.
CardPoints(suit, rank) ==
    IF suit = "Hearts" THEN 1
    ELSE IF suit = "Spades" /\ rank = "Q" THEN 13
    ELSE 0

\* Card(suit, rank); the constructor raises ValueError on an unknown suit or
\* rank, which IsCardStr below decides beforehand.
Card(suit, rank) ==
    [suit |-> suit, rank |-> rank, value |-> RANKS[rank],
     points |-> CardPoints(suit, rank)]

\* Card.to_str
to_str(card) == <<card.rank, SUITS[card.suit]>>

\* Card.from_str succeeds (raises no ValueError) on this code.
IsCardStr(card_str) ==
    /\ card_str[2] \in DOMAIN SUIT_MAP_REV
    /\ card_str[1] \in DOMAIN RANKS

\* Card.from_str
from_str(card_str) == Card(SUIT_MAP_REV[card_str[2]], card_str[1])

\* The ranks the model's deck keeps of the thirteen of Card.RANKS; the deck
\* holds every suit of each, so a hand holds Cardinality(DeckRanks) cards
\* where the full deck gives 13.
DeckRanks == {"2", "Q", "A"}

\* Deck._create_deck
AllCards == {to_str(Card(s, r)) : s \in SuitNames, r \in DeckRanks}

\* Deck.deal: cards_per_player, 13 with the full deck.
CardsPerPlayer == Cardinality(DeckRanks)

TwoOfClubs == <<"2", "C">>

QueenOfSpades == <<"Q", "S">>

\* get_trick_winner without the suit test: the highest card of any suit.
get_trick_winner_AnySuit(played_cards, lead_suit) ==
    LET Scan[i \in 1..Len(played_cards)] ==
            IF i = 1 THEN played_cards[1]
            ELSE IF played_cards[i].value > Scan[i - 1].value
                 THEN played_cards[i]
                 ELSE Scan[i - 1]
    IN Scan[Len(played_cards)]

\* get_trick_winner, for a non-empty list (it raises ValueError on an empty
\* one): start from the first card, replace it by each later card of the
\* lead suit with a higher value.
get_trick_winner(played_cards, lead_suit) ==
    LET Scan[i \in 1..Len(played_cards)] ==
            IF i = 1 THEN played_cards[1]
            ELSE IF /\ played_cards[i].suit = lead_suit
                    /\ played_cards[i].value > Scan[i - 1].value
                 THEN played_cards[i]
                 ELSE Scan[i - 1]
    IN Scan[Len(played_cards)]

----------------------------------------------------------------------------
(* The table: models.GamePlayer rows of the game, in seat order *)

players == << [user_id |-> 3, seat_number |-> 1],
              [user_id |-> 1, seat_number |-> 2],
              [user_id |-> 4, seat_number |-> 3],
              [user_id |-> 2, seat_number |-> 4] >>

UserIds == {players[i].user_id : i \in DOMAIN players}

SeatOf(user_id) ==
    players[CHOOSE i \in DOMAIN players :
                players[i].user_id = user_id].seat_number

UserAtSeat(seat) ==
    players[CHOOSE i \in DOMAIN players :
                players[i].seat_number = seat].user_id

----------------------------------------------------------------------------
(* Python's sorted() on card codes: str comparison, code point by code     *)
(* point; the rank text decides first, then the glyph (♠ < ♣ < ♥ < ♦).     *)

RankTextOrder == <<"10", "2", "3", "4", "5", "6", "7", "8", "9",
                   "A", "J", "K", "Q">>

GlyphOrder == <<"S", "C", "H", "D">>

IndexIn(seq, x) == CHOOSE i \in DOMAIN seq : seq[i] = x

CardStrLess(a, b) ==
    \/ IndexIn(RankTextOrder, a[1]) < IndexIn(RankTextOrder, b[1])
    \/ /\ a[1] = b[1]
       /\ IndexIn(GlyphOrder, a[2]) < IndexIn(GlyphOrder, b[2])

sorted(seq) == SortSeq(seq, CardStrLess)

RECURSIVE SetToSeq(_)
SetToSeq(S) ==
    IF S = {} THEN <<>>
    ELSE LET x == CHOOSE y \in S : TRUE IN <<x>> \o SetToSeq(S \ {x})

Range(seq) == {seq[i] : i \in DOMAIN seq}

\* list.remove(x): drop the first occurrence.
Remove(seq, x) ==
    LET i == CHOOSE j \in DOMAIN seq :
                 seq[j] = x /\ \A k \in 1..(j - 1) : seq[k] # x
    IN SubSeq(seq, 1, i - 1) \o SubSeq(seq, i + 1, Len(seq))

\* [c for c in seq if c not in drop]
Without(seq, drop) == SelectSeq(seq, LAMBDA c : c \notin Range(drop))

----------------------------------------------------------------------------
(* The session store: get_game_state / set_game_state over a Redis hash.   *)
(* Every field is text: json.dumps of a dict or list, str() of the rest.   *)

\* json.dumps(v) of a dict or list: a text that starts with "[" or "{" and
\* that json.loads turns back into v.
Json(v) == [json |-> v]

\* str(v) of a str or None.
StrOfStr(v) == IF v = None THEN "None" ELSE v[1]

\* str(v) of a bool.
StrOfBool(v) == IF v THEN "True" ELSE "False"

\* str(i) of the integers the state holds (user ids, round numbers).
DecimalText == [i \in 0..20 |-> ToString(i)]

\* str(v) of an int or None.
StrOfInt(v) == IF v = None THEN "None" ELSE DecimalText[v[1]]

\* int(text) inside try/except: None when the text is no decimal number.
IntOfText(text) ==
    IF \E i \in DOMAIN DecimalText : DecimalText[i] = text
    THEN Some(CHOOSE i \in DOMAIN DecimalText : DecimalText[i] = text)
    ELSE None

\* redis hset(key, mapping=...): the fields given are written, the others
\* of the hash stay.
hset(hash, mapping) ==
    [f \in DOMAIN hash \cup DOMAIN mapping |->
        IF f \in DOMAIN mapping THEN mapping[f] ELSE hash[f]]

\* The mapping set_game_state writes for an in-memory state.
StateToSave(state) ==
    [f \in DOMAIN state |->
        CASE f \in {"hands", "passed_cards", "current_trick", "round_scores"}
                -> Json(state[f])
          [] f \in {"round_number", "turn_user_id", "trick_starter_id"}
                -> StrOfInt(state[f])
          [] f = "lead_suit" -> StrOfStr(state[f])
          [] f = "hearts_broken" -> StrOfBool(state[f])
          [] OTHER -> state[f]]

\* set_game_state
set_game_state(hash, state) == hset(hash, StateToSave(state))

\* get_game_state that keeps None a None (the store as the rules engine of
\* the specification reads it).
get_game_state_NoneKept(hash) ==
    [f \in DOMAIN hash |->
        CASE f \in {"hands", "passed_cards", "current_trick", "round_scores"}
                -> hash[f].json
          [] f \in {"round_number", "turn_user_id", "trick_starter_id"}
                -> IntOfText(hash[f])
          [] f = "lead_suit" ->
                IF hash[f] = "None" THEN None ELSE Some(hash[f])
          [] f = "hearts_broken" -> (hash[f] = "True")
          [] OTHER -> hash[f]]

\* get_game_state, for a hash that is not empty: JSON texts are loaded, the
\* three integer keys go through int(), hearts_broken is compared with
\* "True", every other field stays the text that was stored.
get_game_state(hash) ==
    [f \in DOMAIN hash |->
        CASE f \in {"hands", "passed_cards", "current_trick", "round_scores"}
                -> hash[f].json
          [] f \in {"round_number", "turn_user_id", "trick_starter_id"}
                -> IntOfText(hash[f])
          [] f = "lead_suit" -> Some(hash[f])
          [] f = "hearts_broken" -> (hash[f] = "True")
          [] OTHER -> hash[f]]

----------------------------------------------------------------------------
(* Round start *)

\* get_pass_direction without the hold round: the three directions in turn.
get_pass_direction_NoHold(round_number) ==
    LET directions == <<Some("left"), Some("right"), Some("across")>>
    IN directions[((round_number - 1) % 3) + 1]

\* get_pass_direction; None on the hold round.
get_pass_direction(round_number) ==
    LET directions == <<Some("left"), Some("right"), Some("across"), None>>
    IN directions[((round_number - 1) % 4) + 1]

\* get_pass_recipient_id with "right" taken as one seat further on than
\* "left" (the seat across).
get_pass_recipient_id_RightIsAcross(sender_id, direction, game_players) ==
    LET sender_seat ==
            game_players[CHOOSE i \in DOMAIN game_players :
                game_players[i].user_id = sender_id].seat_number
        num_players == Len(game_players)
        recipient_seat ==
            CASE direction = "left" -> (sender_seat % num_players) + 1
              [] direction = "right" ->
                   ((sender_seat + 1) % num_players) + 1
              [] direction = "across" ->
                   ((sender_seat + 1) % num_players) + 1
              [] OTHER -> 0
        found == {i \in DOMAIN game_players :
                     game_players[i].seat_number = recipient_seat}
    IN IF found = {} THEN sender_id
       ELSE game_players[CHOOSE i \in found :
                             \A j \in found : i <= j].user_id

\* get_pass_recipient_id: `game_players` is the list of GamePlayer rows it
\* is given.  Any direction but the three returns the sender, and so does
\* a recipient seat that nobody sits at.
get_pass_recipient_id(sender_id, direction, game_players) ==
    LET sender_seat ==
            game_players[CHOOSE i \in DOMAIN game_players :
                game_players[i].user_id = sender_id].seat_number
        num_players == Len(game_players)
        recipient_seat ==
            CASE direction = "left" -> (sender_seat % num_players) + 1
              [] direction = "right" ->
                   ((sender_seat - 2 + num_players) % num_players) + 1
              [] direction = "across" ->
                   ((sender_seat + 1) % num_players) + 1
              [] OTHER -> 0
        found == {i \in DOMAIN game_players :
                     game_players[i].seat_number = recipient_seat}
    IN IF found = {} THEN sender_id
       ELSE game_players[CHOOSE i \in found :
                             \A j \in found : i <= j].user_id

\* A card code, written rank then suit glyph.
C(rank, glyph) == <<rank, glyph>>

\* What spop can return in Deck.deal: the whole deck in some order.  Each
\* order is written four cards a line, one for each of the four hands.
DealSeq == <<
    << C("2","C"), C("A","C"), C("A","D"), C("Q","C"),
       C("2","D"), C("2","H"), C("2","S"), C("Q","S"),
       C("Q","D"), C("Q","H"), C("A","H"), C("A","S") >>,
    << C("Q","C"), C("2","C"), C("2","D"), C("A","D"),
       C("A","H"), C("A","C"), C("Q","D"), C("Q","H"),
       C("Q","S"), C("2","H"), C("A","S"), C("2","S") >>,
    << C("2","S"), C("A","S"), C("Q","S"), C("A","H"),
       C("Q","C"), C("A","C"), C("2","C"), C("Q","H"),
       C("2","H"), C("Q","D"), C("A","D"), C("2","D") >>
  >>

\* How many of the orders of DealSeq a round may be dealt from.
NumDeals == 2

\* Deck.deal that stops four cards short of the deck.
deal_Short(dealt_cards_str) ==
    LET num_players == 4
        dealt_cards == [i \in 1..(Len(dealt_cards_str) - num_players) |->
                           from_str(dealt_cards_str[i])]
        HandOf(h) ==
            LET Take[i \in 0..Len(dealt_cards)] ==
                    IF i = 0 THEN <<>>
                    ELSE IF (i - 1) % num_players = h - 1
                         THEN Append(Take[i - 1], dealt_cards[i])
                         ELSE Take[i - 1]
            IN Take[Len(dealt_cards)]
    IN [h \in 1..num_players |-> HandOf(h)]

\* Deck.deal on a full deck that spop returns as dealt_cards_str: card i
\* (counted from 0) goes to hand i % num_players.
deal(dealt_cards_str) ==
    LET num_players == 4
        dealt_cards == [i \in DOMAIN dealt_cards_str |->
                           from_str(dealt_cards_str[i])]
        HandOf(h) ==
            LET Take[i \in 0..Len(dealt_cards)] ==
                    IF i = 0 THEN <<>>
                    ELSE IF (i - 1) % num_players = h - 1
                         THEN Append(Take[i - 1], dealt_cards[i])
                         ELSE Take[i - 1]
            IN Take[Len(dealt_cards)]
    IN [h \in 1..num_players |-> HandOf(h)]

\* The hands deck.deal() can return to start_new_round.
Deals == {deal(DealSeq[i]) : i \in 1..NumDeals}

\* sorted(game.players, key=lambda p: p.seat_number)
BySeat(game_players) ==
    LET seats == {game_players[i].seat_number : i \in DOMAIN game_players}
        Nth[n \in 0..Len(game_players)] ==
            IF n = 0 THEN <<>>
            ELSE LET done == {Nth[n - 1][i].seat_number :
                                 i \in DOMAIN Nth[n - 1]}
                     seat == CHOOSE x \in seats \ done :
                                 \A y \in seats \ done : x <= y
                     row == CHOOSE i \in DOMAIN game_players :
                                game_players[i].seat_number = seat
                 IN Append(Nth[n - 1], game_players[row])
    IN Nth[Len(game_players)]

\* The state start_new_round builds for the table of `game_players`:
\* `state` is the state read from the store (None when there is none),
\* `player_hands_obj` the four hands dealt.
new_round_state_of(game_players, state, player_hands_obj) ==
    LET round_number == IF state = None THEN 1
                        ELSE state[1].round_number[1] + 1
        seated == BySeat(game_players)
        user_ids == [i \in DOMAIN seated |-> seated[i].user_id]
        uids == Range(user_ids)
        hands_data ==
            [uid \in uids |->
                LET hand == player_hands_obj[IndexIn(user_ids, uid)]
                IN sorted([i \in DOMAIN hand |-> to_str(hand[i])])]
        holders == {i \in DOMAIN user_ids :
                       TwoOfClubs \in Range(hands_data[user_ids[i]])}
        starter_id == IF holders = {} THEN None
                      ELSE Some(user_ids[CHOOSE i \in holders :
                                            \A j \in holders : i <= j])
        direction == get_pass_direction(round_number)
        fresh == [round_number |-> Some(round_number),
                  hands |-> hands_data,
                  turn_user_id |-> starter_id,
                  trick_starter_id |-> starter_id,
                  phase |-> IF direction = None THEN "playing" ELSE "passing",
                  passed_cards |-> [uid \in uids |-> <<>>],
                  current_trick |-> <<>>,
                  lead_suit |-> None,
                  round_scores |-> [uid \in uids |-> 0],
                  hearts_broken |-> FALSE]
    IN IF direction = None THEN fresh
       ELSE fresh @@ [pass_direction |-> direction[1]]

\* The same for the table `players`.
new_round_state(state, player_hands_obj) ==
    new_round_state_of(players, state, player_hands_obj)

----------------------------------------------------------------------------
(* Frames *)

\* manager.broadcast: one frame to every connection of the table.
Broadcast(event, arg) == [to |-> UserIds, event |-> event, arg |-> arg]

\* A personal message that goes out to the whole table.
Personal_ToTable(user_id, event, arg) ==
    [to |-> UserIds, event |-> event, arg |-> arg]

\* manager.send_personal_message
Personal(user_id, event, arg) ==
    [to |-> {user_id}, event |-> event, arg |-> arg]

\* The state while a handler is not inside process_trick_end.
NoLocal == <<>>

\* The rows of a game that find_or_create_game_endpoint has just put
\* in_progress: no winner, no round, every total_score at its default.
NewGameRows ==
    [status |-> "in_progress",
     winner_id |-> None,
     rounds |-> <<>>,
     round_scores |-> <<>>,
     total_score |-> [u \in UserIds |-> 0]]

EmptyHash == <<>>

\* The registry once each of the four players has opened its channel, in
\* seat order; the channel of user u is written u.
AllConnected ==
    [i \in DOMAIN players |->
        [ws |-> players[i].user_id, user_id |-> players[i].user_id]]

\* find_or_create_game_endpoint with the fourth player seated: the first
\* start_new_round, on an empty store, dealing one of `deals`.
FirstRound(deals) ==
    \E player_hands_obj \in deals :
        LET state == new_round_state(None, player_hands_obj) IN
        /\ store = set_game_state(EmptyHash, state)
        /\ pc = [u \in UserIds |-> "receive"]
        /\ local = [u \in UserIds |-> NoLocal]
        /\ db = NewGameRows
        /\ active_connections = AllConnected
        /\ last = [op |-> "start_new_round", user |-> 0,
                   arg |-> player_hands_obj, accepted |-> TRUE]
        /\ sent = << Broadcast("start_passing", state.pass_direction) >>

Init == FirstRound(Deals)

----------------------------------------------------------------------------
(* websocket_endpoint: pass_cards *)

\* How many of the four pass submissions of a round may name a card more
\* than once.
MaxRepeatedPasses == 1

HasRepeat(cards) ==
    \E i, j \in DOMAIN cards : i # j /\ cards[i] = cards[j]

\* The lists of cards a client is taken to send with pass_cards.  While its
\* pass is due: any three cards of its hand; the first two (too short a
\* list); for the user on turn also the first one three times, while fewer
\* than MaxRepeatedPasses such lists are recorded.  Otherwise (its pass is
\* recorded, or the phase is not passing): the list it passed, or the first
\* cards of its hand.
PassInputs(state, u) ==
    LET hand == state.hands[u]
        passed_cards == state.passed_cards
        repeated == {v \in DOMAIN passed_cards : HasRepeat(passed_cards[v])}
    IN IF state.phase = "passing" /\ passed_cards[u] = <<>>
       THEN {sorted(SetToSeq(S)) : S \in {T \in SUBSET Range(hand) :
                                             Cardinality(T) = 3}}
            \cup (IF Len(hand) >= 2 THEN {SubSeq(hand, 1, 2)} ELSE {})
            \cup (IF Len(hand) >= 2
                     /\ state.turn_user_id = Some(u)
                     /\ Cardinality(repeated) < MaxRepeatedPasses
                  THEN {<<hand[1], hand[1], hand[1]>>}
                  ELSE {})
       ELSE IF passed_cards[u] # <<>> THEN {passed_cards[u]}
       ELSE {SubSeq(hand, 1, IF Len(hand) < 3 THEN Len(hand) ELSE 3)}

\* The four passes handed on so that the cards passed take the place of
\* the recipient's hand.
Distribute_Replacing(hands, passed_cards, direction) ==
    LET user_ids == [i \in DOMAIN players |-> players[i].user_id]
        Step[i \in 0..Len(user_ids)] ==
            IF i = 0 THEN hands
            ELSE LET sender_id == user_ids[i]
                     recipient_id ==
                         get_pass_recipient_id(sender_id, direction, players)
                 IN [Step[i - 1] EXCEPT
                        ![recipient_id] = passed_cards[sender_id]]
    IN Step[Len(user_ids)]

\* The hands after the four passes are handed on: each sender's cards are
\* appended to the recipient's hand, in the order of passed_cards.
Distribute(hands, passed_cards, direction) ==
    LET user_ids == [i \in DOMAIN players |-> players[i].user_id]
        Step[i \in 0..Len(user_ids)] ==
            IF i = 0 THEN hands
            ELSE LET sender_id == user_ids[i]
                     recipient_id ==
                         get_pass_recipient_id(sender_id, direction, players)
                 IN [Step[i - 1] EXCEPT
                        ![recipient_id] = @ \o passed_cards[sender_id]]
    IN Step[Len(user_ids)]

PassCards(u, cards_to_pass) ==
    LET state == get_game_state(store)
        ignored == \/ state.phase # "passing"
                   \/ u \notin DOMAIN state.passed_cards
                   \/ state.passed_cards[u] # <<>>
        passed == [state.passed_cards EXCEPT ![u] = cards_to_pass]
        taken == [state.hands EXCEPT ![u] = Without(@, cards_to_pass)]
        all_passed == \A v \in DOMAIN passed : Len(passed[v]) = 3
        dealt == Distribute(taken, passed, state.pass_direction)
        resolved == [state EXCEPT
                        !.passed_cards = passed,
                        !.phase = "playing",
                        !.hands = [v \in DOMAIN dealt |-> sorted(dealt[v])]]
        waiting == [state EXCEPT !.passed_cards = passed, !.hands = taken]
    IN
    /\ pc[u] = "receive"
    /\ UNCHANGED <<pc, local, db, active_connections>>
    /\ IF ignored
       THEN /\ UNCHANGED store
            /\ sent' = <<>>
            /\ last' = [op |-> "pass_cards", user |-> u,
                        arg |-> cards_to_pass, accepted |-> FALSE]
       ELSE IF Len(cards_to_pass) # 3
       THEN /\ UNCHANGED store
            /\ sent' = << Personal(u, "error",
                                   "You must pass exactly 3 cards.") >>
            /\ last' = [op |-> "pass_cards", user |-> u,
                        arg |-> cards_to_pass, accepted |-> FALSE]
       ELSE /\ last' = [op |-> "pass_cards", user |-> u,
                        arg |-> cards_to_pass, accepted |-> TRUE]
            /\ IF all_passed
               THEN /\ store' = set_game_state(store, resolved)
                    /\ sent' = << Broadcast("cards_passed_update", <<>>),
                                  Broadcast("your_turn",
                                            resolved.turn_user_id) >>
               ELSE /\ store' = set_game_state(store, waiting)
                    /\ sent' = <<>>

----------------------------------------------------------------------------
(* websocket_endpoint: play_card *)

\* The first of a non-empty set of card codes, in sorted() order.
FirstOf(cards) ==
    CHOOSE c \in cards : \A d \in cards : c = d \/ CardStrLess(c, d)

\* The cards a client is taken to send with play_card.  The user on turn:
\* each card of its hand, and one card it does not hold.  Any other user:
\* one card (the validation turns it down before it looks at the card).
PlayInputs(state, u) ==
    LET hand == state.hands[u]
    IN IF state.turn_user_id = Some(u)
       THEN Range(hand) \cup {FirstOf(AllCards \ Range(hand))}
       ELSE {FirstOf(AllCards)}

\* "Must follow suit" tested the wrong way round: it turns down the card
\* that does follow.
MustFollowSuit_Inverted(lead_suit, played_card, hand) ==
    /\ Truthy(lead_suit)
    /\ played_card.suit = lead_suit[1]
    /\ \E c \in Range(hand) : from_str(c).suit = lead_suit[1]

\* Rule "Must follow suit": a suit was led, the card is of another suit and
\* the hand holds a card of the suit led.
MustFollowSuit(lead_suit, played_card, hand) ==
    /\ Truthy(lead_suit)
    /\ played_card.suit # lead_suit[1]
    /\ \E c \in Range(hand) : from_str(c).suit = lead_suit[1]

\* The server-side validation of play_card: the error message, "" when the
\* play is valid.  cards_per_player is the size of a hand as dealt, which
\* the code writes 13.
ValidatePlayOf(cards_per_player, state, player_id, card_str) ==
    LET hand == state.hands[player_id]
        played_card == from_str(card_str)
        is_first_trick == Len(hand) = cards_per_player
        lead_suit == state.lead_suit
    IN
    IF state.turn_user_id # Some(player_id) THEN "Not your turn."
    ELSE IF card_str \notin Range(hand) THEN "Card not in hand."
    ELSE IF /\ is_first_trick
            /\ ~Truthy(lead_suit)
            /\ card_str # TwoOfClubs
            /\ TwoOfClubs \in Range(hand)
    THEN "Must lead with 2 of Clubs."
    ELSE IF MustFollowSuit(lead_suit, played_card, hand)
    THEN "Must follow suit (" \o lead_suit[1] \o ")."
    ELSE IF /\ ~Truthy(lead_suit)
            /\ played_card.suit = "Hearts"
            /\ ~state.hearts_broken
    THEN "Hearts have not been broken."
    ELSE IF /\ is_first_trick
            /\ Truthy(lead_suit)
            /\ played_card.points > 0
            /\ \E c \in Range(hand) : from_str(c).points = 0
    THEN "Cannot play point cards on the first trick."
    ELSE ""

\* The validation with the hands of the deck AllCards.
ValidatePlay(state, player_id, card_str) ==
    ValidatePlayOf(CardsPerPlayer, state, player_id, card_str)

\* Hearts broken by hearts alone, not by the queen of spades.
BreaksHearts_HeartsOnly(played_card) == played_card.suit = "Hearts"

\* The card sets hearts_broken: a heart, or the queen of spades.
BreaksHearts(played_card) ==
    \/ played_card.suit = "Hearts"
    \/ to_str(played_card) = QueenOfSpades

\* The state update with lead_suit taken from every card played, not from
\* the first of the trick alone.
ApplyPlay_LeadSuitOfLastCard(state, player_id, card_str) ==
    LET played_card == from_str(card_str)
        trick == Append(state.current_trick,
                        [player_id |-> player_id, card |-> card_str])
        next_seat == (SeatOf(player_id) % 4) + 1
    IN [state EXCEPT
           !.hands[player_id] = Remove(@, card_str),
           !.hearts_broken = IF BreaksHearts(played_card) THEN TRUE ELSE @,
           !.lead_suit = Some(played_card.suit),
           !.current_trick = trick,
           !.turn_user_id = IF Len(trick) < 4
                            THEN Some(UserAtSeat(next_seat)) ELSE None]

\* The state update of an accepted play_card.
ApplyPlay(state, player_id, card_str) ==
    LET played_card == from_str(card_str)
        trick == Append(state.current_trick,
                        [player_id |-> player_id, card |-> card_str])
        next_seat == (SeatOf(player_id) % 4) + 1
    IN [state EXCEPT
           !.hands[player_id] = Remove(@, card_str),
           !.hearts_broken = IF BreaksHearts(played_card) THEN TRUE ELSE @,
           !.lead_suit = IF state.current_trick = <<>>
                         THEN Some(played_card.suit) ELSE @,
           !.current_trick = trick,
           !.turn_user_id = IF Len(trick) < 4
                            THEN Some(UserAtSeat(next_seat)) ELSE None]

\* The handler of play_card, for hands dealt cards_per_player cards.
PlayCardOf(cards_per_player, u, card_str) ==
    LET state == get_game_state(store)
        error_message == ValidatePlayOf(cards_per_player, state, u, card_str)
        played == ApplyPlay(state, u, card_str)
    IN
    /\ pc[u] = "receive"
    /\ UNCHANGED <<db, active_connections>>
    /\ IF error_message # ""
       THEN /\ UNCHANGED <<store, pc, local>>
            /\ sent' = << Personal(u, "error", error_message) >>
            /\ last' = [op |-> "play_card", user |-> u, arg |-> card_str,
                        accepted |-> FALSE]
       ELSE /\ store' = set_game_state(store, played)
            /\ last' = [op |-> "play_card", user |-> u, arg |-> card_str,
                        accepted |-> TRUE]
            /\ IF Len(played.current_trick) = 4
               THEN /\ pc' = [pc EXCEPT ![u] = "process_trick_end"]
                    /\ local' = [local EXCEPT ![u] = played]
                    /\ sent' = << Broadcast("card_played", <<u, card_str>>) >>
               ELSE /\ UNCHANGED <<pc, local>>
                    /\ sent' = << Broadcast("card_played", <<u, card_str>>),
                                  Broadcast("your_turn", played.turn_user_id) >>

PlayCard(u, card_str) == PlayCardOf(CardsPerPlayer, u, card_str)

----------------------------------------------------------------------------
(* process_trick_end, entered by the handler that took the fourth card *)

\* The player_id of the last entry of the trick, whatever card it holds.
WinnerId_LastPlayer(trick, card_str) == Some(trick[Len(trick)].player_id)

\* The player_id of the first entry of the trick that holds the card.
WinnerId(trick, card_str) ==
    LET hits == {i \in DOMAIN trick : trick[i].card = card_str}
    IN IF hits = {} THEN None
       ELSE Some(trick[CHOOSE i \in hits : \A j \in hits : i <= j].player_id)

RECURSIVE SumPoints(_)
SumPoints(cards) ==
    IF cards = <<>> THEN 0 ELSE Head(cards).points + SumPoints(Tail(cards))

\* process_trick_end up to its sleep: the state it saves.
TrickEndState(state) ==
    LET trick == state.current_trick
        lead_suit == from_str(trick[1].card).suit
        played_cards == [i \in DOMAIN trick |-> from_str(trick[i].card)]
        trick_winner_card == get_trick_winner(played_cards, lead_suit)
        winner_id == WinnerId(trick, to_str(trick_winner_card))
        points == SumPoints(played_cards)
    IN [state EXCEPT
           !.round_scores[winner_id[1]] = @ + points,
           !.current_trick = <<>>,
           !.lead_suit = None,
           !.turn_user_id = winner_id,
           !.trick_starter_id = winner_id]

ProcessTrickEnd(u) ==
    LET state == local[u]
        ended == TrickEndState(state)
        points == SumPoints([i \in DOMAIN state.current_trick |->
                                from_str(state.current_trick[i].card)])
    IN
    /\ pc[u] = "process_trick_end"
    /\ UNCHANGED <<db, active_connections>>
    /\ store' = set_game_state(store, ended)
    /\ local' = [local EXCEPT ![u] = ended]
    /\ pc' = [pc EXCEPT ![u] = "sleep"]
    /\ sent' = << Broadcast("trick_end", <<ended.turn_user_id, points>>) >>
    /\ last' = [op |-> "process_trick_end", user |-> u,
                arg |-> state.current_trick, accepted |-> TRUE]

----------------------------------------------------------------------------
(* crud.py: the round and score functions *)

\* The parameters crud.create_round declares.
create_round_parameters == {"db", "game_id"}

\* The arguments process_round_end calls crud.create_round with.
create_round_arguments == {"db", "game_id", "round_number"}

\* A Python call raises TypeError when it names an argument the function
\* does not declare.
RaisesTypeError(parameters, arguments) == arguments \ parameters # {}

\* crud.create_round: a Round row of the game; the function sets no
\* round_number.
create_round(rows) ==
    [rows EXCEPT !.rounds =
        Append(@, [id |-> Len(@) + 1, round_number |-> None])]

\* crud.create_round_score
create_round_score(rows, round_id, user_id, score) ==
    [rows EXCEPT !.round_scores =
        Append(@, [round_id |-> round_id, user_id |-> user_id,
                   score |-> score])]

\* crud.update_player_total_score
update_player_total_score(rows, user_id, score_change) ==
    [rows EXCEPT !.total_score[user_id] = @ + score_change]

\* crud.end_game
end_game(rows, winner_id) ==
    [rows EXCEPT !.status = "finished", !.winner_id = Some(winner_id)]

----------------------------------------------------------------------------
(* process_round_end *)

\* The round score that is "shooting the moon".
MoonScore == 26

\* The total_score that ends the game.
EndScore == 100

\* The shooter: the first user, in the order of round_scores (which is the
\* seat order start_new_round wrote it in), whose score is MoonScore.
shooter_id(round_scores) ==
    LET user_ids == [i \in DOMAIN players |-> players[i].user_id]
        shooters == {i \in DOMAIN user_ids :
                        round_scores[user_ids[i]] = MoonScore}
    IN IF shooters = {} THEN None
       ELSE Some(user_ids[CHOOSE i \in shooters : \A j \in shooters : i <= j])

\* What the round adds to a player's total_score.
score_change(round_scores, player_id) ==
    LET shooter == shooter_id(round_scores)
    IN IF shooter # None
       THEN IF player_id = shooter[1] THEN 0 ELSE MoonScore
       ELSE round_scores[player_id]

\* The rows after process_round_end has written the round: one Round row,
\* then for each player of game.players a RoundScore row and the new
\* total_score.
RoundRows(rows, state) ==
    LET with_round == create_round(rows)
        db_round == with_round.rounds[Len(with_round.rounds)]
        Step[i \in 0..Len(players)] ==
            IF i = 0 THEN with_round
            ELSE LET player_id == players[i].user_id
                     change == score_change(state.round_scores, player_id)
                 IN update_player_total_score(
                        create_round_score(Step[i - 1], db_round.id,
                                           player_id, change),
                        player_id, change)
    IN Step[Len(players)]

\* min(game.players, key=total_score): the first player of game.players
\* with the least total_score.
LowestScorer(rows) ==
    LET least == {i \in DOMAIN players :
                     \A j \in DOMAIN players :
                         rows.total_score[players[i].user_id]
                             <= rows.total_score[players[j].user_id]}
    IN players[CHOOSE i \in least : \A j \in least : i <= j].user_id

\* process_trick_end after asyncio.sleep(2.5).  With cards left it announces
\* the winner's turn.  With every hand empty it enters process_round_end,
\* whose first statement calls crud.create_round with a round_number, which
\* crud.create_round does not declare: the TypeError ends the connection's
\* handler before a row is written.  Past that call the round is written,
\* and the game ends at EndScore or the handler sleeps before the next
\* round.
AfterTrickPause(u) ==
    LET state == local[u]
        cards_left == \E v \in DOMAIN state.hands : state.hands[v] # <<>>
        written == RoundRows(db, state)
        game_over == \E v \in UserIds : written.total_score[v] >= EndScore
        winner == LowestScorer(written)
    IN
    /\ pc[u] = "sleep"
    /\ UNCHANGED <<store, active_connections>>
    /\ local' = [local EXCEPT ![u] = NoLocal]
    /\ last' = [op |-> "after_trick_pause", user |-> u, arg |-> <<>>,
                accepted |-> TRUE]
    /\ IF cards_left
       THEN /\ pc' = [pc EXCEPT ![u] = "receive"]
            /\ sent' = << Broadcast("your_turn", state.turn_user_id) >>
            /\ UNCHANGED db
       ELSE IF RaisesTypeError(create_round_parameters, create_round_arguments)
       THEN /\ pc' = [pc EXCEPT ![u] = "crashed"]
            /\ sent' = <<>>
            /\ UNCHANGED db
       ELSE IF game_over
       THEN /\ pc' = [pc EXCEPT ![u] = "receive"]
            /\ sent' = << Broadcast("game_over", winner) >>
            /\ db' = end_game(written, winner)
       ELSE /\ pc' = [pc EXCEPT ![u] = "round_end_sleep"]
            /\ sent' = <<>>
            /\ db' = written

\* process_round_end after asyncio.sleep(5): start_new_round, which is
\* dealt player_hands_obj.
StartNewRound(u, player_hands_obj) ==
    LET state == new_round_state(Some(get_game_state(store)),
                                 player_hands_obj)
    IN
    /\ pc[u] = "round_end_sleep"
    /\ store' = set_game_state(store, state)
    /\ pc' = [pc EXCEPT ![u] = "receive"]
    /\ UNCHANGED <<local, db, active_connections>>
    /\ last' = [op |-> "start_new_round", user |-> u,
                arg |-> player_hands_obj, accepted |-> TRUE]
    /\ sent' = IF state.phase = "playing"
               THEN << Broadcast("start_playing", <<>>),
                       Broadcast("your_turn", state.turn_user_id) >>
               ELSE << Broadcast("start_passing", state.pass_direction) >>

----------------------------------------------------------------------------

ClientPassCards ==
    \E u \in UserIds :
        \E cards \in PassInputs(get_game_state(store), u) :
            PassCards(u, cards)

ClientPlayCard ==
    \E u \in UserIds :
        \E card_str \in PlayInputs(get_game_state(store), u) :
            PlayCard(u, card_str)

TrickEnd == \E u \in UserIds : ProcessTrickEnd(u)

TrickPauseOver == \E u \in UserIds : AfterTrickPause(u)

Next ==
    \/ ClientPassCards
    \/ ClientPlayCard
    \/ TrickEnd
    \/ TrickPauseOver

Spec == Init /\ [][Next]_vars

----------------------------------------------------------------------------
(* get_trick_winner called on its own.  `last` holds the call and, once it *)
(* has returned, `sent` holds what it returned; nothing else moves.        *)

\* The longest list of cards get_trick_winner is called with.
MaxTrickLen == 3

\* The lists of at most n cards of the deck.
CardLists(n) ==
    UNION {[1..k -> {from_str(c) : c \in AllCards}] : k \in 0..n}

\* The table at rest.
Idle ==
    /\ store = EmptyHash
    /\ pc = [u \in UserIds |-> "receive"]
    /\ local = [u \in UserIds |-> NoLocal]
    /\ db = NewGameRows
    /\ active_connections = AllConnected

InitTrickWinner ==
    /\ Idle
    /\ \E played_cards \in CardLists(MaxTrickLen), lead_suit \in SuitNames :
           last = [op |-> "call", user |-> 0,
                   arg |-> <<played_cards, lead_suit>>, accepted |-> FALSE]
    /\ sent = <<>>

\* The call returns its card, or raises ValueError on an empty list.
CallGetTrickWinner ==
    LET played_cards == last.arg[1]
        lead_suit == last.arg[2]
    IN
    /\ last.op = "call"
    /\ UNCHANGED <<store, pc, local, db, active_connections>>
    /\ IF played_cards = <<>>
       THEN /\ last' = [last EXCEPT !.op = "get_trick_winner",
                                    !.accepted = FALSE]
            /\ sent' = << "ValueError" >>
       ELSE /\ last' = [last EXCEPT !.op = "get_trick_winner",
                                    !.accepted = TRUE]
            /\ sent' = << get_trick_winner(played_cards, lead_suit) >>

SpecTrickWinner == InitTrickWinner /\ [][CallGetTrickWinner]_vars

----------------------------------------------------------------------------
(* get_pass_recipient_id called on its own, on every seating of the four   *)
(* users; `last` and `sent` are used as for get_trick_winner.              *)

\* The GamePlayer rows of every seating of the four users, in seat order.
Seatings ==
    {[seat \in 1..4 |-> [user_id |-> f[seat], seat_number |-> seat]] :
        f \in {g \in [1..4 -> UserIds] :
                  \A i, j \in 1..4 : i # j => g[i] # g[j]}}

\* The directions the function is called with: the three that
\* get_pass_direction gives, and a value that is none of them.
DirectionInputs == {"left", "right", "across", "hold"}

InitRecipient ==
    /\ Idle
    /\ \E sender_id \in UserIds, direction \in DirectionInputs,
          game_players \in Seatings :
           last = [op |-> "call", user |-> sender_id,
                   arg |-> <<direction, game_players>>, accepted |-> FALSE]
    /\ sent = <<>>

CallGetPassRecipientId ==
    /\ last.op = "call"
    /\ UNCHANGED <<store, pc, local, db, active_connections>>
    /\ last' = [last EXCEPT !.op = "get_pass_recipient_id",
                            !.accepted = TRUE]
    /\ sent' = << get_pass_recipient_id(last.user, last.arg[1],
                                        last.arg[2]) >>

SpecRecipient == InitRecipient /\ [][CallGetPassRecipientId]_vars

----------------------------------------------------------------------------
(* Round start and passing on their own: start_new_round after a round of  *)
(* any number, dealing a deck of four ranks (hands of four cards, so that  *)
(* a hand keeps a card when three are passed), and the pass_cards that     *)
(* follow.  No card is played.                                             *)

\* The ranks of the deck dealt here.
RoundDeckRanks == {"2", "Q", "K", "A"}

RoundCards == {to_str(Card(s, r)) : s \in SuitNames, r \in RoundDeckRanks}

\* The hand dealt to each user, 13 with the full deck.
RoundCardsPerPlayer == Cardinality(RoundDeckRanks)

\* What spop can return of this deck, four cards a line.
RoundDealSeq == <<
    << C("2","C"), C("2","D"), C("2","H"), C("2","S"),
       C("Q","D"), C("Q","H"), C("Q","S"), C("Q","C"),
       C("K","H"), C("K","S"), C("K","C"), C("K","D"),
       C("A","S"), C("A","C"), C("A","D"), C("A","H") >>,
    << C("A","H"), C("K","H"), C("2","C"), C("Q","S"),
       C("Q","H"), C("2","H"), C("K","C"), C("A","S"),
       C("2","D"), C("Q","D"), C("A","C"), C("K","S"),
       C("K","D"), C("A","D"), C("Q","C"), C("2","S") >>
  >>

\* How many of the orders of RoundDealSeq a round may be dealt from.
NumRoundDeals == 1

RoundDeals == {deal(RoundDealSeq[i]) : i \in 1..NumRoundDeals}

\* The highest number of a round that is over when start_new_round runs.
MaxPrevRound == 3

\* The Session State the store returns when round r is over: every hand
\* played out, the points of the deck in round_scores, and pass_direction
\* as the last round that had one has written it.
FinishedRound(r) ==
    LET passing_round == IF get_pass_direction(r) = None THEN r - 1 ELSE r
        passed == IF get_pass_direction(r) = None THEN 0 ELSE 3
        dealt == deal(RoundDealSeq[1])
        seat1 == UserAtSeat(1)
        seat2 == UserAtSeat(2)
        over == [round_number |-> Some(r),
                 hands |-> [u \in UserIds |-> <<>>],
                 turn_user_id |-> Some(seat1),
                 trick_starter_id |-> Some(seat1),
                 phase |-> "playing",
                 passed_cards |->
                     [u \in UserIds |->
                         LET hand == dealt[SeatOf(u)]
                         IN sorted([i \in 1..passed |-> to_str(hand[i])])],
                 current_trick |-> <<>>,
                 lead_suit |-> None,
                 round_scores |->
                     [u \in UserIds |->
                         IF u = seat1 THEN Cardinality(RoundDeckRanks)
                         ELSE IF u = seat2 THEN 13 ELSE 0],
                 hearts_broken |-> TRUE]
    IN IF passing_round = 0 THEN over
       ELSE over @@ [pass_direction |->
                         get_pass_direction(passing_round)[1]]

\* The rows of the database when process_round_end has written rounds
\* 1..r.
RowsAfter(r) ==
    LET Step[i \in 0..r] ==
            IF i = 0 THEN NewGameRows
            ELSE RoundRows(Step[i - 1], FinishedRound(i))
    IN Step[r]

\* process_round_end has written round r and sleeps before it starts the
\* next round; it runs in the handler of the user who played the last card.
RoundOver ==
    \E r \in 1..MaxPrevRound :
        LET u == UserAtSeat(4) IN
        /\ store = set_game_state(EmptyHash, FinishedRound(r))
        /\ pc = [v \in UserIds |->
                    IF v = u THEN "round_end_sleep" ELSE "receive"]
        /\ local = [v \in UserIds |-> NoLocal]
        /\ db = RowsAfter(r)
        /\ active_connections = AllConnected
        /\ last = [op |-> "process_round_end", user |-> u, arg |-> <<>>,
                   accepted |-> TRUE]
        /\ sent = <<>>

InitRound == FirstRound(RoundDeals) \/ RoundOver

\* The lists of cards a client is taken to send with pass_cards here.  While
\* its pass is due: any three cards of its hand; the first two (too short a
\* list); and for the user on turn a list that names a card twice and a
\* list with a card of another hand.  Otherwise (its pass is recorded, or
\* the phase is not passing): the list it passed, or the first cards of its
\* hand.
PassInputsAny(state, u) ==
    LET hand == state.hands[u]
        passed_cards == state.passed_cards
    IN IF state.phase = "passing" /\ passed_cards[u] = <<>>
       THEN {sorted(SetToSeq(S)) : S \in {T \in SUBSET Range(hand) :
                                             Cardinality(T) = 3}}
            \cup (IF Len(hand) >= 2 THEN {SubSeq(hand, 1, 2)} ELSE {})
            \cup (IF Len(hand) >= 2 /\ state.turn_user_id = Some(u)
                  THEN {<<hand[1], hand[1], hand[2]>>,
                        <<hand[1], hand[2],
                          FirstOf(RoundCards \ Range(hand))>>}
                  ELSE {})
       ELSE IF passed_cards[u] # <<>> THEN {passed_cards[u]}
       ELSE {SubSeq(hand, 1, IF Len(hand) < 3 THEN Len(hand) ELSE 3)}

ClientPassCardsAny ==
    \E u \in UserIds :
        \E cards \in PassInputsAny(get_game_state(store), u) :
            PassCards(u, cards)

StartNextRound ==
    \E u \in UserIds :
        \E player_hands_obj \in RoundDeals :
            StartNewRound(u, player_hands_obj)

NextRound ==
    \/ StartNextRound
    \/ ClientPassCardsAny

SpecRound == InitRound /\ [][NextRound]_vars

----------------------------------------------------------------------------
(* Session State as the store holds it *)

phase == store.phase

hands == store.hands.json

passed_cards == store.passed_cards.json

current_trick == store.current_trick.json

round_scores == store.round_scores.json

hearts_broken == store.hearts_broken = "True"

turn_user_id == IntOfText(store.turn_user_id)

trick_starter_id == IntOfText(store.trick_starter_id)

round_number == IntOfText(store.round_number)

SuitOf(card_str) == from_str(card_str).suit

ValueOf(card_str) == from_str(card_str).value

PointsOf(card_str) == from_str(card_str).points

\* How often a card code stands in a hand.
Count(hand, card_str) ==
    Cardinality({i \in DOMAIN hand : hand[i] = card_str})

\* The step handles a play_card of card c sent by user u.
IsPlay(u, c) ==
    /\ last'.op = "play_card"
    /\ last'.user = u
    /\ last'.arg = c

Rejected == ~last'.accepted /\ store' = store

----------------------------------------------------------------------------
(* Play validation *)

\* C1: a play_card handled while phase = passing is rejected and leaves the
\* Session State unchanged.
C1_PlayRejectedWhilePassing ==
    [][\A u \in UserIds : \A c \in AllCards :
          (IsPlay(u, c) /\ phase = "passing") => Rejected]_vars

AllHandsFull == \A u \in UserIds : Len(hands[u]) = CardsPerPlayer

\* C2: with every hand full and current_trick empty, a play_card of the user
\* on turn, who holds the 2 of clubs, with another card of the hand is
\* rejected.
C2_FirstPlayMustBeTwoOfClubs ==
    [][\A u \in UserIds : \A c \in AllCards :
          ( /\ IsPlay(u, c)
            /\ AllHandsFull
            /\ current_trick = <<>>
            /\ turn_user_id = Some(u)
            /\ TwoOfClubs \in Range(hands[u])
            /\ c \in Range(hands[u])
            /\ c # TwoOfClubs ) => Rejected]_vars

\* No pass recorded names a card twice.
RegularPasses == \A v \in UserIds : ~HasRepeat(passed_cards[v])

\* C3: when the fourth pass has been handed on (phase has become playing;
\* each pass was of three different cards and every hand is full again),
\* turn_user_id is the user whose hand holds the 2 of clubs.
C3_TurnIsTwoOfClubsHolderAfterPass ==
    ( /\ last.op = "pass_cards" /\ last.accepted /\ phase = "playing"
      /\ RegularPasses /\ AllHandsFull )
        => /\ turn_user_id # None
           /\ TwoOfClubs \in Range(hands[turn_user_id[1]])

\* C4: the user on turn who leads a heart while hearts_broken is false and
\* the hand holds a card that is no heart is rejected, state unchanged (in
\* the playing phase, after four passes of three different cards each).
C4_HeartLeadRejectedUntilBroken ==
    [][\A u \in UserIds : \A c \in AllCards :
          ( /\ IsPlay(u, c)
            /\ phase = "playing"
            /\ RegularPasses
            /\ turn_user_id = Some(u)
            /\ current_trick = <<>>
            /\ c \in Range(hands[u])
            /\ SuitOf(c) = "Hearts"
            /\ ~hearts_broken
            /\ \E d \in Range(hands[u]) : SuitOf(d) # "Hearts" )
          => Rejected]_vars

C6_MustFollowSuit ==
    [][\A u \in UserIds : \A c \in AllCards :
          ( /\ IsPlay(u, c)
            /\ turn_user_id = Some(u)
            /\ current_trick # <<>>
            /\ c \in Range(hands[u])
            /\ SuitOf(c) # SuitOf(current_trick[1].card) )
          => LET lead == SuitOf(current_trick[1].card)
                 holds_lead == \E d \in Range(hands[u]) : SuitOf(d) = lead
                 free == \/ PointsOf(c) = 0
                         \/ \A d \in Range(hands[u]) : PointsOf(d) > 0
             IN /\ holds_lead => Rejected
                /\ (~holds_lead /\ free) => last'.accepted]_vars

\* An off-suit card has just been turned down for a user who holds the suit
\* led.
C6_Witness ==
    /\ last.op = "play_card" /\ ~last.accepted
    /\ turn_user_id = Some(last.user)
    /\ current_trick # <<>>
    /\ last.arg \in Range(hands[last.user])
    /\ SuitOf(last.arg) # SuitOf(current_trick[1].card)
    /\ \E d \in Range(hands[last.user]) :
          SuitOf(d) = SuitOf(current_trick[1].card)

\* Every card code of the deck is in a hand, in a pass not yet handed on or
\* in current_trick: no trick of the round is complete.
NoTrickComplete ==
    AllCards \subseteq
        UNION {Range(hands[u]) : u \in UserIds}
        \cup (IF phase = "passing"
              THEN UNION {Range(passed_cards[u]) : u \in UserIds} ELSE {})
        \cup {current_trick[i].card : i \in DOMAIN current_trick}

\* C7: on the first trick of a round a play of a point card by a user who
\* holds a card without points is rejected.
C7_NoPointsOnFirstTrick ==
    [][\A u \in UserIds : \A c \in AllCards :
          ( /\ IsPlay(u, c)
            /\ NoTrickComplete
            /\ turn_user_id = Some(u)
            /\ c \in Range(hands[u])
            /\ PointsOf(c) > 0
            /\ \E d \in Range(hands[u]) : PointsOf(d) = 0 )
          => Rejected]_vars

\* C8: a play_card of a user not on turn, or of a card not in the hand, is
\* rejected; every rejected play_card sends one error frame, to the sender
\* alone, and leaves the stored state as it was; the user on turn who names
\* a card not in the hand is told "Card not in hand.".
C8_RejectedPlayIsPrivateAndHarmless ==
    [][\A u \in UserIds : \A c \in AllCards :
          IsPlay(u, c) =>
            /\ (turn_user_id # Some(u) \/ c \notin Range(hands[u]))
                  => ~last'.accepted
            /\ ~last'.accepted =>
                  /\ store' = store
                  /\ Len(sent') = 1
                  /\ sent'[1].event = "error"
                  /\ sent'[1].to = {u}
                  /\ (turn_user_id = Some(u) /\ c \notin Range(hands[u]))
                        => sent'[1].arg = "Card not in hand."]_vars

\* The user on turn has just been turned down for a card not in the hand.
C8_Witness ==
    /\ last.op = "play_card" /\ ~last.accepted
    /\ turn_user_id = Some(last.user)
    /\ last.arg \notin Range(hands[last.user])
    /\ sent = << Personal(last.user, "error", "Card not in hand.") >>

\* C9: an accepted play_card of card c by user u takes one c out of u's
\* hand, appends {u, c} once at the end of current_trick, sets lead_suit to
\* c's suit if current_trick was empty (and leaves it otherwise), sets
\* hearts_broken if c is a heart or the queen of spades (and leaves it
\* otherwise), and changes no other hand and no round_scores.
C9_AcceptedPlayUpdate ==
    [][\A u \in UserIds : \A c \in AllCards :
          (IsPlay(u, c) /\ last'.accepted) =>
            /\ Len(hands'[u]) = Len(hands[u]) - 1
            /\ \A d \in AllCards :
                  Count(hands'[u], d) =
                      Count(hands[u], d) - (IF d = c THEN 1 ELSE 0)
            /\ current_trick' =
                  Append(current_trick, [player_id |-> u, card |-> c])
            /\ store'.lead_suit = IF current_trick = <<>> THEN SuitOf(c)
                                  ELSE store.lead_suit
            /\ hearts_broken' = \/ hearts_broken
                                \/ SuitOf(c) = "Hearts"
                                \/ c = QueenOfSpades
            /\ \A v \in UserIds \ {u} : hands'[v] = hands[v]
            /\ round_scores' = round_scores]_vars

\* The queen of spades has just been played onto a trick, which broke
\* hearts.
C9_Witness ==
    /\ last.op = "play_card" /\ last.accepted
    /\ last.arg = QueenOfSpades
    /\ Len(current_trick) > 1
    /\ current_trick[Len(current_trick)] =
          [player_id |-> last.user, card |-> QueenOfSpades]
    /\ \A i \in DOMAIN current_trick : SuitOf(current_trick[i].card) # "Hearts"
    /\ hearts_broken

----------------------------------------------------------------------------
(* Trick completion *)

\* C10: the winner declared for a complete trick (winner_id of trick_end,
\* the new turn_user_id) played a card of the suit of the trick's first
\* card, and no card of that suit in the trick has a higher value.
C10_WinnerPlayedHighestOfLeadSuit ==
    [][last'.op = "process_trick_end" =>
          LET trick == current_trick
              lead == SuitOf(trick[1].card)
          IN /\ Len(trick) = 4
             /\ last'.arg = trick
             /\ sent'[1].event = "trick_end"
             /\ sent'[1].arg[1] = turn_user_id'
             /\ \E i \in DOMAIN trick :
                   /\ turn_user_id' = Some(trick[i].player_id)
                   /\ SuitOf(trick[i].card) = lead
                   /\ \A j \in DOMAIN trick :
                         SuitOf(trick[j].card) = lead
                            => ValueOf(trick[j].card) <= ValueOf(trick[i].card)
      ]_vars

\* A trick has just been completed in which a card of another suit outranks
\* every card of the suit led.
C10_Witness ==
    /\ last.op = "process_trick_end"
    /\ \E j \in DOMAIN last.arg :
          /\ SuitOf(last.arg[j].card) # SuitOf(last.arg[1].card)
          /\ \A i \in DOMAIN last.arg :
                SuitOf(last.arg[i].card) = SuitOf(last.arg[1].card)
                   => ValueOf(last.arg[i].card) < ValueOf(last.arg[j].card)

----------------------------------------------------------------------------
(* C11 *)

\* C11: get_trick_winner(cards, lead_suit) raises on an empty list, and on a
\* list that holds a card of lead_suit it returns a card of lead_suit whose
\* value no card of lead_suit in the list exceeds, wherever the cards of
\* other suits stand in the list.
C11_TrickWinnerIsHighestOfLeadSuit ==
    last.op = "get_trick_winner" =>
        LET played_cards == last.arg[1]
            lead_suit == last.arg[2]
            of_lead == {i \in DOMAIN played_cards :
                           played_cards[i].suit = lead_suit}
        IN IF played_cards = <<>> THEN ~last.accepted
           ELSE /\ last.accepted
                /\ of_lead # {} =>
                      /\ sent[1].suit = lead_suit
                      /\ \A i \in of_lead :
                             played_cards[i].value <= sent[1].value

----------------------------------------------------------------------------
(* C12 *)

\* The points of the cards of a trick.
PointsIn(trick) ==
    LET Sum[i \in 0..Len(trick)] ==
            IF i = 0 THEN 0 ELSE Sum[i - 1] + PointsOf(trick[i].card)
    IN Sum[Len(trick)]

----------------------------------------------------------------------------
(* C13, C14, C15: round completion *)

\* The step is the one in which a handler, after a trick's pause, finds
\* every hand of its state empty: the round is complete and
\* process_round_end is entered.  The round is one that was played after
\* four passes of three different cards.
RoundCompletes ==
    /\ last'.op = "after_trick_pause"
    /\ phase = "playing"
    /\ RegularPasses
    /\ \A u \in UserIds : Len(passed_cards[u]) = 3
    /\ pc[last'.user] = "sleep"
    /\ \A u \in UserIds : local[last'.user].hands[u] = <<>>
    /\ \A u \in UserIds : hands[u] = <<>>

\* What a user's total is to grow by at round completion: with a user at
\* MoonScore, 0 for that user and MoonScore for the others; else the
\* user's round_scores.
Delta(u) ==
    IF \E v \in UserIds : round_scores[v] = MoonScore
    THEN IF round_scores[u] = MoonScore THEN 0 ELSE MoonScore
    ELSE round_scores[u]

\* The score rows the step adds.
NewScoreRows ==
    {db'.round_scores[i] :
        i \in (DOMAIN db'.round_scores) \ (DOMAIN db.round_scores)}

\* C13: at round completion every user is given a delta, which is 0 for a
\* user whose round_scores is 26 and 26 for the three others, and the
\* user's round_scores when nobody has 26.
C13_RoundDeltas ==
    [][RoundCompletes =>
         \A u \in UserIds :
            \E row \in NewScoreRows :
                row.user_id = u /\ row.score = Delta(u)]_vars

\* C14: each time every hand is empty after a trick, round completion runs
\* to its end: one new Round row with the session's round_number, four new
\* score rows, one for each user with the user's delta, and each
\* total_score grown by that delta.
C14_RoundIsRecorded ==
    [][RoundCompletes =>
         /\ Len(db'.rounds) = Len(db.rounds) + 1
         /\ Some(db'.rounds[Len(db'.rounds)].round_number) =
                IntOfText(store.round_number)
         /\ Len(db'.round_scores) = Len(db.round_scores) + 4
         /\ \A u \in UserIds :
               /\ Cardinality({row \in NewScoreRows : row.user_id = u}) = 1
               /\ db'.total_score[u] = db.total_score[u] + Delta(u)]_vars

\* C15: after a round ends, with a total_score at 100 or above the table
\* is finished and its winner has the lowest total_score (of several, the
\* one at the lowest seat); with every total below 100 the table stays in
\* progress and the handler goes on to start the next round.
C15_GameEndsOrNextRound ==
    [][RoundCompletes =>
         IF \E u \in UserIds : db'.total_score[u] >= EndScore
         THEN /\ db'.status = "finished"
              /\ db'.winner_id # None
              /\ \A v \in UserIds :
                    LET w == db'.winner_id[1]
                    IN \/ db'.total_score[w] < db'.total_score[v]
                       \/ /\ db'.total_score[w] = db'.total_score[v]
                          /\ SeatOf(w) <= SeatOf(v)
         ELSE /\ db'.status = "in_progress"
              /\ pc'[last'.user] = "round_end_sleep"]_vars

----------------------------------------------------------------------------
(* C16, C17: pass_cards *)

\* Three different cards, all of the hand.
ThreeOfHand(cards, hand) ==
    /\ Len(cards) = 3
    /\ ~HasRepeat(cards)
    /\ Range(cards) \subseteq Range(hand)

\* C16: a pass_cards is accepted only in the passing phase, only from a
\* user who has not passed in the round, and only with three different
\* cards of the sender's hand; every other pass_cards leaves the Session
\* State as it was.
C16_PassIsValidated ==
    [][last'.op = "pass_cards" =>
         LET u == last'.user
             cards == last'.arg
             valid == /\ phase = "passing"
                      /\ passed_cards[u] = <<>>
                      /\ ThreeOfHand(cards, hands[u])
         IN /\ last'.accepted => valid
            /\ ~valid => store' = store]_vars

\* Every card of the deck is held once: in one hand or in one recorded
\* pass.  It is so at round start, and stays so while every pass recorded
\* is of three different cards of the sender's hand.
EachCardOnce ==
    LET held == [v \in UserIds |-> hands[v] \o passed_cards[v]]
        Total[i \in 0..Len(players)] ==
            IF i = 0 THEN 0 ELSE Total[i - 1] + Len(held[players[i].user_id])
    IN /\ UNION {Range(held[v]) : v \in UserIds} = RoundCards
       /\ Total[Len(players)] = Cardinality(RoundCards)

\* The step accepts a pass of three different cards of the sender's hand,
\* and so were the passes before it.
AcceptsPass ==
    /\ last'.op = "pass_cards"
    /\ last'.accepted
    /\ EachCardOnce
    /\ ThreeOfHand(last'.arg, hands[last'.user])

\* The pass the step accepts is the fourth of the round.
FourthPass ==
    \A v \in UserIds \ {last'.user} : passed_cards[v] # <<>>

\* The user at the seat the round's direction sends the cards of s to.
RecipientOf(s) ==
    LET direction == store.pass_direction
        seat == CASE direction = "left" -> (SeatOf(s) % 4) + 1
                  [] direction = "right" -> ((SeatOf(s) + 2) % 4) + 1
                  [] direction = "across" -> ((SeatOf(s) + 1) % 4) + 1
    IN UserAtSeat(seat)

\* The cards user v was dealt, and the cards v gives away once the step's
\* pass is recorded.
DealtTo(v) == Range(hands[v]) \cup Range(passed_cards[v])

GivenBy(v) ==
    IF v = last'.user THEN Range(last'.arg) ELSE Range(passed_cards[v])

\* After the step the phase is playing, and every user holds a full hand:
\* the cards it was dealt less the three it gave, and the three given by
\* the one other user whose recipient it is.
PassesResolved ==
    /\ phase' = "playing"
    /\ \A r \in UserIds :
          /\ Len(hands'[r]) = RoundCardsPerPlayer
          /\ \E s \in UserIds \ {r} :
                /\ r = RecipientOf(s)
                /\ Range(hands'[r]) =
                       (DealtTo(r) \ GivenBy(r)) \cup GivenBy(s)

----------------------------------------------------------------------------
(* C18 *)

\* C18: for a sender at seat s the recipient is the user at seat
\* (s mod 4) + 1 for left, ((s + 2) mod 4) + 1 for right and
\* ((s + 1) mod 4) + 1 for across, and is never the sender.
C18_RecipientSeat ==
    (last.op = "get_pass_recipient_id" /\ last.arg[1] # "hold") =>
        LET direction == last.arg[1]
            game_players == last.arg[2]
            s == CHOOSE seat \in 1..4 :
                     game_players[seat].user_id = last.user
            seat == CASE direction = "left" -> (s % 4) + 1
                      [] direction = "right" -> ((s + 2) % 4) + 1
                      [] direction = "across" -> ((s + 1) % 4) + 1
        IN /\ sent[1] = game_players[seat].user_id
           /\ sent[1] # last.user

\* The function has answered for the sender at seat 1 passing to the right,
\* whose recipient sits at seat 4.
C18_Witness ==
    /\ last.op = "get_pass_recipient_id"
    /\ last.arg[1] = "right"
    /\ last.arg[2][1].user_id = last.user
    /\ sent[1] = last.arg[2][4].user_id

----------------------------------------------------------------------------
(* C19, C20: round start *)

\* The user whose hand holds the two of clubs.
HolderOfTwoOfClubs ==
    CHOOSE u \in UserIds : TwoOfClubs \in Range(hands[u])

\* The round of the Session State has been started (the state is not the
\* one a finished round has left behind).
RoundStarted == last.op \in {"start_new_round", "pass_cards"}

\* C19: the direction of round r is element (r - 1) mod 4 of left, right,
\* across, hold.  Round start on a hold round sets phase = playing with the
\* holder of the two of clubs on turn, and announces that; no pass is
\* accepted in the round.  Round start on any other round sets
\* phase = passing and announces the direction.
C19_DirectionAndHoldRound ==
    RoundStarted =>
        LET r == round_number[1]
            direction == <<"left", "right", "across", "hold">>[((r - 1) % 4) + 1]
        IN IF direction = "hold"
           THEN /\ phase = "playing"
                /\ \A u \in UserIds : passed_cards[u] = <<>>
                /\ last.op = "pass_cards" => ~last.accepted
                /\ last.op = "start_new_round" =>
                      /\ turn_user_id = Some(HolderOfTwoOfClubs)
                      /\ sent = << Broadcast("start_playing", <<>>),
                                   Broadcast("your_turn",
                                             Some(HolderOfTwoOfClubs)) >>
           ELSE last.op = "start_new_round" =>
                      /\ phase = "passing"
                      /\ store.pass_direction = direction
                      /\ sent = << Broadcast("start_passing", direction) >>

\* A pass_cards was sent in a hold round and was not accepted: the hands
\* are as dealt.
C19_Witness ==
    /\ last.op = "pass_cards"
    /\ ~last.accepted
    /\ round_number = Some(4)
    /\ phase = "playing"
    /\ \A u \in UserIds : Len(hands[u]) = RoundCardsPerPlayer

----------------------------------------------------------------------------
(* Matchmaking: crud.find_or_create_game and crud.add_player_to_game       *)
(* behind POST /games/find-or-create, and POST /games/{game_id}/join.      *)
(* In this specification db is the list of the Game rows, each with its    *)
(* status and its GamePlayer rows; the id of a game is its place in the    *)
(* list, so a game created later has the higher id.  store maps the id of  *)
(* a game to its hash game:{id}:state once there is one.                   *)

\* How many users ask for seats: the users 1..NumUsers.
NumUsers == 5

\* How many Game rows are created at most.
MaxGames == 2

\* How many GamePlayer rows are created at most.
MaxSeats == 5

\* The number of GamePlayer rows.
SeatsTaken(games) ==
    LET Sum[n \in 0..Len(games)] ==
            IF n = 0 THEN 0 ELSE Sum[n - 1] + Len(games[n].players)
    IN Sum[Len(games)]

\* crud.create_game: a new row with the default status and no player.
create_game(games) ==
    Append(games, [status |-> "waiting", players |-> <<>>])

\* any(p.user_id == user.id for p in game.players)
IsPlayer(game, user_id) ==
    \E i \in DOMAIN game.players : game.players[i].user_id = user_id

\* crud.add_player_to_game
add_player_to_game(games, game_id, user_id) ==
    LET game == games[game_id]
        current_seat_numbers ==
            {game.players[i].seat_number : i \in DOMAIN game.players}
        next_seat == CHOOSE n \in 1..(Len(game.players) + 1) :
                         /\ n \notin current_seat_numbers
                         /\ \A m \in 1..(n - 1) : m \in current_seat_numbers
    IN IF IsPlayer(game, user_id) THEN games
       ELSE [games EXCEPT ![game_id].players =
                Append(@, [user_id |-> user_id, seat_number |-> next_seat])]

\* crud.update_game_status
update_game_status(games, game_id, status) ==
    [games EXCEPT ![game_id].status = status]

\* The query of find_or_create_game: the waiting games the user is not in.
waiting_games(games, user_id) ==
    {g \in DOMAIN games : /\ games[g].status = "waiting"
                          /\ ~IsPlayer(games[g], user_id)}

\* eligible_games that also takes a table of four.
eligible_games_UpToFour(games, user_id) ==
    {g \in waiting_games(games, user_id) : Len(games[g].players) <= 4}

\* eligible_games of find_or_create_game.
eligible_games(games, user_id) ==
    {g \in waiting_games(games, user_id) : Len(games[g].players) < 4}

\* The games find_or_create_game can take as game_to_join from `games`.
\* The query has no ORDER BY, so eligible_games[0] is whichever eligible
\* row the database returns first; with none eligible it is the id
\* create_game gives the new row.
game_to_join(games, user_id) ==
    IF eligible_games(games, user_id) # {}
    THEN eligible_games(games, user_id)
    ELSE {Len(games) + 1}

\* crud.find_or_create_game with game_to_join = game_id.
find_or_create_game(games, user_id, game_id) ==
    add_player_to_game(IF game_id \in DOMAIN games THEN games
                       ELSE create_game(games),
                       game_id, user_id)

\* The users registered for a table.
Registered(connections) ==
    {connections[i].user_id : i \in DOMAIN connections}

\* A frame manager.broadcast sends to the registered connections.
BroadcastTo(connections, event, arg) ==
    [to |-> Registered(connections), event |-> event, arg |-> arg]

\* The hands Deck.deal gives the first round of a game found here.
MatchDeal == deal(DealSeq[1])

\* POST /games/find-or-create by user u: find_or_create_game, and with the
\* fourth player seated the status update, start_new_round and the
\* game_starting broadcast.
FindOrCreate(u) ==
    \E game_id \in game_to_join(db, u) :
        LET joined == find_or_create_game(db, u, game_id)
            game == joined[game_id]
            four == game.status = "waiting" /\ Len(game.players) = 4
            state == new_round_state_of(game.players, None, MatchDeal)
        IN
        /\ game_id <= MaxGames
        /\ SeatsTaken(db) < MaxSeats
        /\ UNCHANGED <<pc, local, active_connections>>
        /\ last' = [op |-> "find_or_create", user |-> u, arg |-> game_id,
                    accepted |-> TRUE]
        /\ IF four
           THEN /\ db' = update_game_status(joined, game_id, "in_progress")
                /\ store' = [g \in DOMAIN store \cup {game_id} |->
                                IF g = game_id
                                THEN set_game_state(EmptyHash, state)
                                ELSE store[g]]
                /\ sent' = << BroadcastTo(active_connections,
                                          "start_passing",
                                          state.pass_direction),
                              BroadcastTo(active_connections,
                                          "game_starting", game_id) >>
           ELSE /\ db' = joined
                /\ UNCHANGED store
                /\ sent' = <<>>

\* POST /games/{game_id}/join by user u (routers/games.py): the HTTP error
\* the request ends with, or add_player_to_game.
JoinExistingGame(u, game_id) ==
    LET status_code ==
            IF game_id \notin DOMAIN db THEN 404
            ELSE IF db[game_id].status # "waiting" THEN 400
            ELSE IF Len(db[game_id].players) >= 4 THEN 400
            ELSE IF IsPlayer(db[game_id], u) THEN 400
            ELSE 200
    IN
    /\ SeatsTaken(db) < MaxSeats
    /\ UNCHANGED <<store, pc, local, active_connections>>
    /\ last' = [op |-> "join", user |-> u, arg |-> game_id,
                accepted |-> status_code = 200]
    /\ sent' = << status_code >>
    /\ db' = IF status_code = 200 THEN add_player_to_game(db, game_id, u)
             ELSE db

\* No game yet, nobody connected.
InitMatch ==
    /\ store = EmptyHash
    /\ pc = <<>>
    /\ local = <<>>
    /\ db = <<>>
    /\ last = [op |-> "none", user |-> 0, arg |-> 0, accepted |-> FALSE]
    /\ sent = <<>>
    /\ active_connections = <<>>

NextMatch ==
    \/ \E u \in 1..NumUsers : FindOrCreate(u)
    \/ \E u \in 1..NumUsers, game_id \in 1..MaxGames :
           JoinExistingGame(u, game_id)

SpecMatch == InitMatch /\ [][NextMatch]_vars

----------------------------------------------------------------------------
(* The connection registry: websocket_manager.ConnectionManager.  In the   *)
(* specifications below pc has an entry for each websocket: "unopened",    *)
(* "receive" once accepted, "closed" once the client is gone, "crashed"    *)
(* once its handler has ended with an exception.                           *)

\* How many websockets are opened at most.
NumSockets == 3

Sockets == 1..NumSockets

\* ConnectionManager.connect after websocket.accept()
connect(connections, websocket, user_id) ==
    IF \E i \in DOMAIN connections : connections[i].user_id = user_id
    THEN connections
    ELSE Append(connections, [ws |-> websocket, user_id |-> user_id])

\* ConnectionManager.disconnect(game_id, user_id)
disconnect(connections, user_id) ==
    SelectSeq(connections, LAMBDA conn : conn.user_id # user_id)

\* send_text raises WebSocketDisconnect or RuntimeError on a websocket whose
\* client is gone or whose handler has ended.
SendFails(chans, websocket) == chans[websocket] \in {"closed", "crashed"}

\* ConnectionManager.broadcast that gives up at the first send that fails.
broadcast_StopsAtFailure(connections, chans) ==
    LET bad == {i \in DOMAIN connections :
                   SendFails(chans, connections[i].ws)}
        first == IF bad = {} THEN Len(connections) + 1
                 ELSE CHOOSE i \in bad : \A j \in bad : i <= j
    IN [to |-> {connections[i].ws : i \in 1..(first - 1)},
        failed |-> IF bad = {} THEN {} ELSE {connections[first].user_id},
        connections |->
            IF bad = {} THEN connections
            ELSE disconnect(connections, connections[first].user_id)]

\* ConnectionManager.broadcast over the connections of the game, in the
\* order of the list: `to` the websockets the message reaches, `failed` the
\* users whose send raised, `connections` the list it leaves.
broadcast(connections, chans) ==
    LET bad == {i \in DOMAIN connections :
                   SendFails(chans, connections[i].ws)}
        Left[n \in 0..Len(connections)] ==
            IF n = 0 THEN connections
            ELSE IF n \in bad
                 THEN disconnect(Left[n - 1], connections[n].user_id)
                 ELSE Left[n - 1]
    IN [to |-> {connections[i].ws : i \in DOMAIN connections \ bad},
        failed |-> {connections[i].user_id : i \in bad},
        connections |-> Left[Len(connections)]]

\* ConnectionManager.get_websocket
get_websocket(connections, user_id) ==
    LET found == {i \in DOMAIN connections :
                     connections[i].user_id = user_id}
    IN IF found = {} THEN None
       ELSE Some(connections[CHOOSE i \in found :
                                 \A j \in found : i <= j].ws)

\* A frame as manager.broadcast delivers it.
Delivered(result, event, arg) ==
    [to |-> result.to, event |-> event, arg |-> arg]

\* What a call gives back to its caller.
Returned(value) == [to |-> {}, event |-> "return", arg |-> value]

\* No websocket opened yet.
NoSocket ==
    /\ pc = [websocket \in Sockets |-> "unopened"]
    /\ local = [websocket \in Sockets |-> NoLocal]
    /\ db = NewGameRows
    /\ active_connections = <<>>
    /\ sent = <<>>

InitRegistry ==
    /\ store = EmptyHash
    /\ NoSocket
    /\ last = [op |-> "none", user |-> 0, arg |-> 0, accepted |-> FALSE]

\* manager.connect(websocket, game_id, user_id)
ManagerConnect ==
    \E websocket \in Sockets, user_id \in UserIds :
        /\ pc[websocket] = "unopened"
        /\ pc' = [pc EXCEPT ![websocket] = "receive"]
        /\ active_connections' =
               connect(active_connections, websocket, user_id)
        /\ last' = [op |-> "connect", user |-> user_id, arg |-> websocket,
                    accepted |-> TRUE]
        /\ sent' = <<>>
        /\ UNCHANGED <<store, local, db>>

\* The client of a websocket goes away.
SocketCloses ==
    \E websocket \in Sockets :
        /\ pc[websocket] = "receive"
        /\ pc' = [pc EXCEPT ![websocket] = "closed"]
        /\ last' = [op |-> "close", user |-> 0, arg |-> websocket,
                    accepted |-> TRUE]
        /\ sent' = <<>>
        /\ UNCHANGED <<store, local, db, active_connections>>

\* manager.broadcast(message, game_id)
ManagerBroadcast ==
    LET result == broadcast(active_connections, pc) IN
    /\ active_connections # <<>>
    /\ active_connections' = result.connections
    /\ last' = [op |-> "broadcast", user |-> 0,
                arg |-> Cardinality(result.failed), accepted |-> TRUE]
    /\ sent' = << Delivered(result, "message", <<>>) >>
    /\ UNCHANGED <<store, pc, local, db>>

\* manager.get_websocket(game_id, user_id)
ManagerGetWebsocket ==
    \E user_id \in UserIds :
        /\ last' = [op |-> "get_websocket", user |-> user_id, arg |-> 0,
                    accepted |-> TRUE]
        /\ sent' = << Returned(get_websocket(active_connections, user_id)) >>
        /\ UNCHANGED <<store, pc, local, db, active_connections>>

NextRegistry ==
    \/ ManagerConnect
    \/ SocketCloses
    \/ ManagerBroadcast
    \/ ManagerGetWebsocket

SpecRegistry == InitRegistry /\ [][NextRegistry]_vars

----------------------------------------------------------------------------
(* websocket_endpoint: opening, the frames that are no pass_cards and no   *)
(* valid play_card, and the end of a connection.  pc has an entry for each *)
(* websocket as above, local[websocket] is the current_user of its         *)
(* handler, and last names the websocket and the frame received.           *)

\* get_game_data_as_dict(game, state)["players"]: a card_count for each
\* player when the state has hands, and never a hand.
get_game_data_as_dict(rows, state) ==
    [i \in DOMAIN players |->
        LET p == players[i]
            player_info == [user |-> p.user_id,
                            seat_number |-> p.seat_number,
                            total_score |-> rows.total_score[p.user_id]]
        IN IF state # None /\ "hands" \in DOMAIN state
           THEN player_info @@ [card_count |-> Len(state.hands[p.user_id])]
           ELSE player_info]

\* {**state, "players": full_game_data['players']}: every field of the
\* state, hands included, and the players of get_game_data_as_dict.
StateWithPlayers(rows, state) ==
    [players |-> get_game_data_as_dict(rows, state)] @@ state

\* The parameters ConnectionManager.disconnect declares after self.
disconnect_parameters == << "game_id", "user_id" >>

\* The arguments the handler calls manager.disconnect with.
disconnect_arguments == << "websocket", "game_id", "current_user.id" >>

\* A Python call raises TypeError when it gives more positional arguments
\* than the function has parameters.
TooManyArguments(parameters, arguments) == Len(arguments) > Len(parameters)

\* A text frame: whether json.loads takes it, and then its "event" and
\* "card".
Frame(json, event, card) == [json |-> json, event |-> event, card |-> card]

NoFrame == Frame(FALSE, "", <<>>)

\* The frames a client is taken to send here: a text that is no JSON, the
\* request for the state, an event the handler does not know, and
\* play_card with a card of no suit glyph, of an unknown suit glyph, and of
\* an unknown rank.
ChannelFrames ==
    { Frame(FALSE, "", <<>>),
      Frame(TRUE, "request_initial_state", <<>>),
      Frame(TRUE, "shuffle", <<>>),
      Frame(TRUE, "play_card", <<"2">>),
      Frame(TRUE, "play_card", <<"2", "X">>),
      Frame(TRUE, "play_card", <<"1", "H">>) }

\* Card.from_str raises ValueError: the text is shorter than two
\* characters, or its last character is no suit glyph, or Card() does not
\* know the rank.
from_str_raises(card_str) ==
    \/ Len(card_str) < 2
    \/ ~IsCardStr(card_str)

\* websocket_endpoint up to its message loop, for a user with a seat:
\* manager.connect, then player_update to the table.
Connect(websocket, u) ==
    LET state == get_game_state(store)
        chans == [pc EXCEPT ![websocket] = "receive"]
        result == broadcast(connect(active_connections, websocket, u), chans)
    IN
    /\ pc[websocket] = "unopened"
    /\ pc' = chans
    /\ local' = [local EXCEPT ![websocket] = Some(u)]
    /\ active_connections' = result.connections
    /\ last' = [op |-> "connect", user |-> u, ws |-> websocket,
                arg |-> NoFrame, accepted |-> TRUE]
    /\ sent' = << Delivered(result, "player_update",
                            get_game_data_as_dict(db, state)) >>
    /\ UNCHANGED <<store, db>>

\* One turn of the message loop on a frame of ChannelFrames.
ReceiveText(websocket, data) ==
    LET u == local[websocket][1]
        state == get_game_state(store)
        raises == \/ ~data.json
                  \/ /\ state # None
                     /\ data.event = "play_card"
                     /\ from_str_raises(data.card)
    IN
    /\ pc[websocket] = "receive"
    /\ pc' = [pc EXCEPT ![websocket] =
                 IF raises THEN "crashed" ELSE "receive"]
    /\ last' = [op |-> "receive_text", user |-> u, ws |-> websocket,
                arg |-> data, accepted |-> ~raises]
    /\ sent' = IF /\ data.json
                  /\ data.event = "request_initial_state"
                  /\ state # None
               THEN << Personal(websocket, "initial_state",
                                StateWithPlayers(db, state)) >>
               ELSE <<>>
    /\ UNCHANGED <<store, local, db, active_connections>>

\* The client goes away: receive_text raises WebSocketDisconnect and the
\* handler runs its except branch.
ClientDisconnects(websocket) ==
    LET u == local[websocket][1]
        state == get_game_state(store)
        chans == [pc EXCEPT ![websocket] = "closed"]
        result == broadcast(disconnect(active_connections, u), chans)
    IN
    /\ pc[websocket] = "receive"
    /\ pc' = chans
    /\ last' = [op |-> "disconnect", user |-> u, ws |-> websocket,
                arg |-> NoFrame, accepted |-> TRUE]
    /\ IF TooManyArguments(disconnect_parameters, disconnect_arguments)
       THEN /\ UNCHANGED active_connections
            /\ sent' = <<>>
       ELSE /\ active_connections' = result.connections
            /\ sent' = << Delivered(result, "player_update",
                                    get_game_data_as_dict(db, state)) >>
    /\ UNCHANGED <<store, local, db>>

\* The table before its game has a state, or with round 1 just dealt.
InitChannel ==
    /\ \/ store = EmptyHash
       \/ \E player_hands_obj \in Deals :
              store = set_game_state(EmptyHash,
                          new_round_state(None, player_hands_obj))
    /\ NoSocket
    /\ last = [op |-> "none", user |-> 0, ws |-> 0, arg |-> NoFrame,
               accepted |-> FALSE]

NextChannel ==
    \/ \E websocket \in Sockets, u \in UserIds : Connect(websocket, u)
    \/ \E websocket \in Sockets, data \in ChannelFrames :
           ReceiveText(websocket, data)
    \/ \E websocket \in Sockets : ClientDisconnects(websocket)

SpecChannel == InitChannel /\ [][NextChannel]_vars

----------------------------------------------------------------------------
(* process_round_end on a game that has rounds behind it: the last trick   *)
(* of a round has been scored, and the totals of the players are those of  *)
(* the rounds recorded so far.                                             *)

\* The total_score a GamePlayer row may hold when the round ends.
TotalInputs == {0, 80, 99}

\* process_trick_end has scored the last trick of round r and pauses; it
\* runs in the handler of the user who played the last card.
InitGameEnd ==
    \E r \in 1..MaxPrevRound, totals \in [UserIds -> TotalInputs] :
        LET u == UserAtSeat(4)
            state == FinishedRound(r)
        IN
        /\ store = set_game_state(EmptyHash, state)
        /\ pc = [v \in UserIds |-> IF v = u THEN "sleep" ELSE "receive"]
        /\ local = [v \in UserIds |-> IF v = u THEN state ELSE NoLocal]
        /\ db = [NewGameRows EXCEPT !.total_score = totals]
        /\ active_connections = AllConnected
        /\ last = [op |-> "process_trick_end", user |-> u, arg |-> <<>>,
                   accepted |-> TRUE]
        /\ sent = <<>>

SpecGameEnd == InitGameEnd /\ [][TrickPauseOver]_vars

----------------------------------------------------------------------------
(* Claims on matchmaking *)

\* The place of user_id among the rows of a game, 0 when it has no seat.
SeatAt(game, user_id) ==
    IF \E i \in DOMAIN game.players : game.players[i].user_id = user_id
    THEN game.players[CHOOSE i \in DOMAIN game.players :
                          game.players[i].user_id = user_id].seat_number
    ELSE 0

\* The lowest seat number of 1..4 no row of the game holds.
LowestFreeSeat(game) ==
    CHOOSE n \in 1..5 :
        /\ \A i \in DOMAIN game.players : game.players[i].seat_number # n
        /\ \A m \in 1..(n - 1) :
               \E i \in DOMAIN game.players : game.players[i].seat_number = m

\* The waiting tables with fewer than four seats taken that do not hold u.
OpenTablesFor(u) ==
    {g \in DOMAIN db : /\ db[g].status = "waiting"
                       /\ Len(db[g].players) < 4
                       /\ SeatAt(db[g], u) = 0}

\* C21: find_or_create seats the caller in the lowest-numbered free seat of
\* the oldest waiting table that has fewer than four seats taken and does
\* not hold the caller; with no such table it creates a new waiting table
\* and seats the caller at seat 1.
C21_SeatedAtOldestOpenTable ==
    [][last'.op = "find_or_create" =>
          LET u == last'.user
              open == OpenTablesFor(u)
          IN IF open # {}
             THEN LET oldest == CHOOSE g \in open : \A h \in open : g <= h
                  IN /\ last'.arg = oldest
                     /\ Len(db') = Len(db)
                     /\ SeatAt(db'[oldest], u) = LowestFreeSeat(db[oldest])
                     /\ \A g \in DOMAIN db : g # oldest =>
                            db'[g].players = db[g].players
             ELSE /\ Len(db') = Len(db) + 1
                  /\ last'.arg = Len(db')
                  /\ db'[Len(db')].status = "waiting"
                  /\ db'[Len(db')].players =
                         << [user_id |-> u, seat_number |-> 1] >>
                  /\ \A g \in DOMAIN db : db'[g] = db[g]
    ]_vars

\* C22: find_or_create applied twice for the same user returns the same
\* seat: the second call gives the table and the seat number of the first
\* and creates no table and no seat.
C22_SecondCallSameSeat ==
    [][(/\ last.op = "find_or_create"
        /\ last'.op = "find_or_create"
        /\ last'.user = last.user) =>
          /\ last'.arg = last.arg
          /\ SeatAt(db'[last'.arg], last.user) =
                 SeatAt(db[last.arg], last.user)
          /\ Len(db') = Len(db)
          /\ SeatsTaken(db') = SeatsTaken(db)
    ]_vars

\* C23: after any sequence of find_or_create and join calls every table has
\* at most four players, its seat numbers are 1..n for its n players with
\* no seat taken twice, and no user sits at it twice.
C23_TablesAreWellSeated ==
    \A g \in DOMAIN db :
        LET rows == db[g].players IN
        /\ Len(rows) <= 4
        /\ {rows[i].seat_number : i \in DOMAIN rows} = 1..Len(rows)
        /\ \A i, j \in DOMAIN rows :
               i # j => /\ rows[i].seat_number # rows[j].seat_number
                        /\ rows[i].user_id # rows[j].user_id

\* A table of four, and a fifth user whose find_or_create went elsewhere.
C23_Witness ==
    /\ last.op = "find_or_create"
    /\ \E g \in DOMAIN db :
           /\ Len(db[g].players) = 4
           /\ SeatAt(db[g], last.user) = 0
           /\ last.arg # g

\* C24: a table of four players is in progress and has the Session State of
\* round 1, made by the call that seated the fourth player; a table of
\* fewer than four is never in progress, a table of four does not stay
\* waiting.
C24_FourSeatsStartTheGame ==
    \A g \in DOMAIN db :
        /\ Len(db[g].players) < 4 => db[g].status # "in_progress"
        /\ Len(db[g].players) = 4 =>
               /\ db[g].status = "in_progress"
               /\ g \in DOMAIN store
               /\ store[g].round_number = "1"

----------------------------------------------------------------------------
(* Claims on the connection registry *)

\* The entries the registry holds for a user.
EntriesOf(connections, user_id) ==
    {i \in DOMAIN connections : connections[i].user_id = user_id}

\* C27: attach for a user who already has a channel replaces the stale
\* channel: afterwards the registry holds exactly one entry for the user
\* and it is the new channel, so lookup returns the new channel and later
\* broadcasts go to it.
C27_AttachReplacesStaleChannel ==
    [][(/\ last'.op = "connect"
        /\ EntriesOf(active_connections, last'.user) # {}) =>
          /\ Cardinality(EntriesOf(active_connections', last'.user)) = 1
          /\ \A i \in EntriesOf(active_connections', last'.user) :
                 active_connections'[i].ws = last'.arg
    ]_vars

\* C28: broadcast sends to every registered channel; a channel whose send
\* fails is removed from the registry, and every other channel still gets
\* the message and stays registered.
C28_BroadcastIsBestEffort ==
    [][last'.op = "broadcast" =>
          \A i \in DOMAIN active_connections :
              LET conn == active_connections[i]
                  kept == \E j \in DOMAIN active_connections' :
                              active_connections'[j] = conn
              IN IF pc[conn.ws] = "receive"
                 THEN conn.ws \in sent'[1].to /\ kept
                 ELSE conn.ws \notin sent'[1].to /\ ~kept
    ]_vars

\* A broadcast in which one send failed, ahead of the others in the list,
\* and two channels got the message.
C28_Witness ==
    /\ last.op = "broadcast"
    /\ last.arg = 1
    /\ Cardinality(sent[1].to) >= 2
    /\ Len(active_connections) = Cardinality(sent[1].to)
    /\ \E websocket \in Sockets :
           /\ pc[websocket] = "closed"
           /\ \A other \in sent[1].to : websocket < other

----------------------------------------------------------------------------
(* Claims on the channel *)

\* C25: no message shows a player the cards of another: in the reply to
\* request_initial_state, as in every broadcast that carries the state, a
\* recipient finds its own hand as a list and of the other hands no card.
C25_OnlyOwnHandIsSent ==
    \A k \in DOMAIN sent :
        sent[k].event = "initial_state" =>
            \A websocket \in sent[k].to :
                \A v \in DOMAIN sent[k].arg.hands :
                    v # local[websocket][1] => sent[k].arg.hands[v] = <<>>

\* C26: when a client disconnects, its user is removed from the registry,
\* every user still connected gets player_update, and the Session State is
\* left as it was.
C26_DisconnectIsAnnounced ==
    [][last'.op = "disconnect" =>
          /\ \A i \in DOMAIN active_connections' :
                 active_connections'[i].user_id # last'.user
          /\ Len(sent') = 1
          /\ sent'[1].event = "player_update"
          /\ \A i \in DOMAIN active_connections' :
                 pc'[active_connections'[i].ws] = "receive" =>
                     active_connections'[i].ws \in sent'[1].to
          /\ store' = store
    ]_vars

\* The frames the handler has no use for: no JSON, an unknown event, a
\* play_card whose card is no card.
IsProtocolError(data) ==
    \/ ~data.json
    \/ data.event \notin {"request_initial_state", "pass_cards", "play_card"}
    \/ /\ data.event = "play_card"
       /\ \/ Len(data.card) # 2
          \/ data.card[1] \notin DOMAIN RANKS
          \/ data.card[2] \notin {"H", "D", "C", "S"}

\* C29: a frame that is no valid JSON, that carries an unknown event, or
\* that is a play_card with an invalid card never ends the handler: the
\* Session State is unchanged and the connection goes on receiving.
C29_ProtocolErrorsAreSurvived ==
    [][(last'.op = "receive_text" /\ IsProtocolError(last'.arg)) =>
          /\ store' = store
          /\ pc'[last'.ws] = "receive"
    ]_vars

----------------------------------------------------------------------------
(* C30: the end of the game *)

\* The round that ends brings a total_score to EndScore: the game is over.
GameIsOver ==
    /\ last'.op = "after_trick_pause"
    /\ pc[last'.user] = "sleep"
    /\ \A u \in UserIds : local[last'.user].hands[u] = <<>>
    /\ \E u \in UserIds : db.total_score[u] + Delta(u) >= EndScore

----------------------------------------------------------------------------
(* Handlers of one table that overlap.  A handler yields the event loop    *)
(* only where it awaits something that can wait: receive_text, the         *)
(* send_text of a broadcast, asyncio.sleep.  get_game_state and            *)
(* set_game_state call the Redis client without awaiting it, so the load,  *)
(* the update and the save of one message are one step; the handler of the *)
(* fourth card of a trick saves, broadcasts card_played and saves again in *)
(* process_trick_end from the state it loaded.  Here a round is dealt from *)
(* the deck RoundCards, so a hand that has played a card still holds the   *)
(* three cards of a pass.                                                  *)

\* The lists a client is taken to send with pass_cards here: the first
\* three cards of its hand (fewer when the hand holds fewer).
OverlapPassInputs(state, u) ==
    LET hand == state.hands[u]
    IN {SubSeq(hand, 1, IF Len(hand) < 3 THEN Len(hand) ELSE 3)}

\* The cards a client is taken to send with play_card here: the user on
\* turn each card of its hand, any other user the two of clubs.
OverlapPlayInputs(state, u) ==
    IF state.turn_user_id = Some(u) THEN Range(state.hands[u])
    ELSE {TwoOfClubs}

OverlapPassCards ==
    \E u \in UserIds :
        \E cards \in OverlapPassInputs(get_game_state(store), u) :
            PassCards(u, cards)

OverlapPlayCard ==
    \E u \in UserIds :
        \E card_str \in OverlapPlayInputs(get_game_state(store), u) :
            PlayCardOf(RoundCardsPerPlayer, u, card_str)

InitOverlap == FirstRound(RoundDeals)

NextOverlap ==
    \/ OverlapPassCards
    \/ OverlapPlayCard
    \/ TrickEnd
    \/ TrickPauseOver

SpecOverlap == InitOverlap /\ [][NextOverlap]_vars

----------------------------------------------------------------------------
(* manager.broadcast send by send.  The loop of broadcast awaits send_text *)
(* for one connection after the other, over a copy of the list taken when  *)
(* the loop starts; a send_text that has to wait (a client that reads      *)
(* slowly) yields the event loop after it has handed its message to the    *)
(* channel, and the handlers of the other connections run.  Here the four  *)
(* channels are open, the handlers broadcast (card_played, your_turn,      *)
(* player_update, ...) and do nothing else; the messages are numbered in   *)
(* the order in which broadcast is called, local[u] holds the message      *)
(* and the connections the loop of handler u has still to send to, and     *)
(* sent is every frame handed to a channel so far, in that order.          *)

\* How many times broadcast is called.
MaxBroadcasts == 3

\* The numbers of the messages broadcast has been called with.
Issued ==
    {sent[i].arg : i \in DOMAIN sent}
        \cup {local[u].message : u \in {v \in UserIds : local[v] # NoLocal}}

\* await connection["ws"].send_text(message) for the first connection of
\* `rest`: the frame is handed to that channel; the loop goes on with the
\* others, or the broadcast returns.
SendText(u, message, rest) ==
    /\ sent' = Append(sent, [to |-> {Head(rest).ws}, event |-> "message",
                             arg |-> message])
    /\ IF Tail(rest) = <<>>
       THEN /\ pc' = [pc EXCEPT ![u] = "receive"]
            /\ local' = [local EXCEPT ![u] = NoLocal]
       ELSE /\ pc' = [pc EXCEPT ![u] = "broadcast"]
            /\ local' = [local EXCEPT
                            ![u] = [message |-> message, rest |-> Tail(rest)]]

\* The handler of user u calls manager.broadcast: the list is copied and
\* the first send_text runs.
BroadcastBegins(u) ==
    LET message == Cardinality(Issued) + 1 IN
    /\ pc[u] = "receive"
    /\ message <= MaxBroadcasts
    /\ active_connections # <<>>
    /\ SendText(u, message, active_connections)
    /\ last' = [op |-> "broadcast", user |-> u, arg |-> message,
                accepted |-> TRUE]
    /\ UNCHANGED <<store, db, active_connections>>

\* The loop of a broadcast that was suspended goes on with its next
\* connection.
BroadcastGoesOn(u) ==
    /\ pc[u] = "broadcast"
    /\ SendText(u, local[u].message, local[u].rest)
    /\ last' = [op |-> "send_text", user |-> u, arg |-> local[u].message,
                accepted |-> TRUE]
    /\ UNCHANGED <<store, db, active_connections>>

InitBroadcast ==
    /\ store = EmptyHash
    /\ pc = [u \in UserIds |-> "receive"]
    /\ local = [u \in UserIds |-> NoLocal]
    /\ db = NewGameRows
    /\ active_connections = AllConnected
    /\ last = [op |-> "none", user |-> 0, arg |-> 0, accepted |-> FALSE]
    /\ sent = <<>>

NextBroadcast ==
    \/ \E u \in UserIds : BroadcastBegins(u)
    \/ \E u \in UserIds : BroadcastGoesOn(u)

SpecBroadcast == InitBroadcast /\ [][NextBroadcast]_vars

----------------------------------------------------------------------------
(* The end of a round with an event loop that keeps going: the handler     *)
(* that sleeps in process_trick_end is resumed when its sleep is over.     *)

SpecGameEndLive == SpecGameEnd /\ WF_vars(TrickPauseOver)

----------------------------------------------------------------------------
(* The session store as a whole, concurrency of the handlers of one table, *)
(* and the course of a round and of a game                                 *)

\* C31: what get_game_state returns after set_game_state(s) is exactly s,
\* whatever the hash held before: every field with the value and the type
\* it had in s (a None lead_suit is None again), and no field of an earlier
\* save that s does not have (pass_direction on a hold round).  Stated for
\* the save of start_new_round, whose s is new_round_state.
C31_LoadReturnsWhatWasSaved ==
    [][last'.op = "start_new_round"
       => get_game_state(store')
              = new_round_state(Some(get_game_state(store)), last'.arg)]_vars

\* C32: the mutations of a table are serialized: a handler never saves over
\* an update another handler has saved since it loaded the state.  The one
\* handler that saves twice from one load is that of the fourth card of a
\* trick (play_card, then process_trick_end): when process_trick_end
\* saves, the store still holds what this handler saved with the card.
C32_NoSaveOverwritesAnother ==
    [][last'.op = "process_trick_end"
       => get_game_state(store) = local[last'.user]]_vars

\* A trick is being completed: a handler has taken its fourth card and has
\* not yet left the pause of process_trick_end.
InTrickPause == \E u \in UserIds : pc[u] \in {"process_trick_end", "sleep"}

\* C33: from the acceptance of the fourth card of a trick until the pause
\* of process_trick_end is over, turn_user_id is None and every play_card,
\* from the trick winner too, is rejected; the your_turn broadcast after the
\* pause names the user who is turn_user_id in the store at that moment.
C33_NoTurnDuringTrickPause ==
    [][/\ InTrickPause => turn_user_id = None
       /\ (InTrickPause /\ last'.op = "play_card") => Rejected
       /\ ( /\ last'.op = "after_trick_pause"
            /\ sent' # <<>>
            /\ sent'[1].event = "your_turn" )
          => sent'[1].arg = turn_user_id']_vars

\* C34: any two broadcasts to the table reach every recipient in the order
\* in which broadcast was called for them, also when the two calls overlap:
\* of two frames handed to the same channel, the earlier one is the one of
\* the earlier call.
C34_BroadcastsArriveInIssueOrder ==
    \A i, j \in DOMAIN sent :
        (i < j /\ sent[i].to = sent[j].to) => sent[i].arg < sent[j].arg

\* The points of a list of card codes.
PointsOfCards(cards) ==
    LET Sum[n \in 0..Len(cards)] ==
            IF n = 0 THEN 0 ELSE Sum[n - 1] + PointsOf(cards[n])
    IN Sum[Len(cards)]

\* The sum of f over the users.
SumOverUsers(f) ==
    LET user_ids == SetToSeq(UserIds)
        Sum[n \in 0..Len(user_ids)] ==
            IF n = 0 THEN 0 ELSE Sum[n - 1] + f[user_ids[n]]
    IN Sum[Len(user_ids)]

\* The points of the cards no trick has taken yet: those in the hands, those
\* recorded in a pass that is not yet handed on, those on the table.
PointsInPlay ==
    SumOverUsers([u \in UserIds |-> PointsOfCards(hands[u])])
    + (IF phase = "passing"
       THEN SumOverUsers([u \in UserIds |-> PointsOfCards(passed_cards[u])])
       ELSE 0)
    + PointsIn(current_trick)

\* The points of the deck the hands in the store were dealt from, 26 with
\* the full deck.
PointsOfDeck(deck) == PointsOfCards(SetToSeq(deck))

\* C35: at every moment of a round the points recorded in round_scores and
\* the points of the cards not yet taken by a trick add up to the points of
\* the deck (nothing is banked to the totals before the round is over), and
\* no round_scores entry is negative.
C35_PointsAreConserved ==
    /\ SumOverUsers(round_scores) + PointsInPlay = PointsOfDeck(AllCards)
    /\ \A u \in UserIds : round_scores[u] >= 0

\* The step accepts a play_card of a heart or of the queen of spades.
HeartOrQueenLands ==
    /\ last'.op = "play_card"
    /\ last'.accepted
    /\ (SuitOf(last'.arg) = "Hearts" \/ last'.arg = QueenOfSpades)

\* C36: hearts_broken is false when the round starts; within the round it
\* never goes from true back to false, and it goes from false to true
\* exactly with the first accepted play of a heart or of the queen of
\* spades.  A start_new_round sets it false again.
C36_HeartsBrokenIsMonotonic ==
    /\ ~hearts_broken
    /\ [][IF last'.op = "start_new_round"
          THEN ~hearts_broken'
          ELSE /\ hearts_broken => hearts_broken'
               /\ HeartOrQueenLands => hearts_broken'
               /\ (~hearts_broken /\ hearts_broken') => HeartOrQueenLands]_vars

\* Hearts are broken by the queen of spades, with no heart played yet, and
\* stay broken over the plays and the trick end that follow.
C36_Witness ==
    /\ hearts_broken
    /\ last.op = "process_trick_end"
    /\ \E i \in DOMAIN last.arg : last.arg[i].card = QueenOfSpades
    /\ \A c \in AllCards :
           SuitOf(c) = "Hearts" => \E u \in UserIds : c \in Range(hands[u])

CardsInPlay ==
    LET user_ids == SetToSeq(UserIds)
        Held[n \in 0..Len(user_ids)] ==
            IF n = 0 THEN <<>>
            ELSE Held[n - 1] \o hands[user_ids[n]]
                     \o (IF phase = "passing"
                         THEN passed_cards[user_ids[n]] ELSE <<>>)
    IN Held[Len(user_ids)]
           \o [i \in DOMAIN current_trick |-> current_trick[i].card]

\* C38: in every state of a round, whatever the clients send, no card code
\* occurs twice across the hands, the recorded passes not yet handed on and
\* current_trick, no code occurs that is not of the deck, and the cards of
\* the deck that occur nowhere are those of whole tricks (four apiece); the
\* four hands have equal size whenever current_trick is empty in phase
\* playing.
C38_EveryCardExactlyOnce ==
    /\ \A c \in Range(CardsInPlay) :
           c \in AllCards /\ Count(CardsInPlay, c) = 1
    /\ (Cardinality(AllCards) - Len(CardsInPlay)) % 4 = 0
    /\ (phase = "playing" /\ current_trick = <<>>)
           => \A u, v \in UserIds : Len(hands[u]) = Len(hands[v])

\* Some hand still holds a card.
CardsLeft == \E u \in UserIds : hands[u] # <<>>

\* C39: in phase playing with cards left in the hands and no trick being
\* completed, turn_user_id names a seated user whose hand holds a card that
\* the validation of play_card accepts; in phase passing every user whose
\* pass is not recorded can send a list that pass_cards accepts (the
\* handler's conditions: phase passing, no pass recorded, three entries).
\* For the rounds dealt from the deck RoundCards.
C39_RoundCanGoOn ==
    LET state == get_game_state(store) IN
    /\ (phase = "playing" /\ CardsLeft /\ ~InTrickPause)
           => /\ turn_user_id # None
              /\ turn_user_id[1] \in UserIds
              /\ \E c \in Range(hands[turn_user_id[1]]) :
                     ValidatePlayOf(RoundCardsPerPlayer, state,
                                    turn_user_id[1], c) = ""
    /\ phase = "passing"
           => \A u \in UserIds :
                  passed_cards[u] = <<>>
                      => \E a, b, c \in RoundCards :
                             /\ u \in DOMAIN state.passed_cards
                             /\ Len(<<a, b, c>>) = 3

\* The handler that took the last card of the round is in the pause of
\* process_trick_end: the round completes with its next step.
RoundEnds ==
    \E u \in UserIds :
        /\ pc[u] = "sleep"
        /\ \A v \in UserIds : local[u].hands[v] = <<>>

\* C40: every game terminates.  No total_score ever decreases; the step
\* that completes a round adds at least the points of the deck (26) to the
\* sum of the four totals; a round that brings a total to EndScore leads
\* to the table being finished with a winner set; and once it is finished
\* nothing changes the table or its scores.
C40_GameTerminates ==
    /\ [][/\ \A u \in UserIds : db'.total_score[u] >= db.total_score[u]
          /\ RoundEnds
                 => SumOverUsers(db'.total_score)
                        >= SumOverUsers(db.total_score)
                               + PointsOfDeck(RoundCards)
          /\ db.status = "finished" => (db' = db /\ store' = store)]_vars
    /\ (RoundEnds /\ \E u \in UserIds :
                         db.total_score[u] + Delta(u) >= EndScore)
           ~> (db.status = "finished" /\ db.winner_id # None)

====
